---------------------------- MODULE Spec2Model ----------------------------
(***************************************************************************)
(* Subotai: a Kademlia-style distributed hash table.                       *)
(*                                                                         *)
(* The module models the identifier algebra (src/src/hash/mod.rs), the     *)
(* routing table (src/src/routing/mod.rs), the storage                     *)
(* (src/src/storage/mod.rs) and the node: its handlers, loops, reception   *)
(* iterators, waves and stores (src/src/node/resources.rs,                 *)
(* src/src/node/mod.rs, src/src/node/receptions.rs, src/src/rpc/mod.rs).   *)
(*                                                                         *)
(* Identifiers are HASH_SIZE-bit naturals; the source stores them as       *)
(* little-endian byte arrays, so bit i of the natural is bit i of the      *)
(* hash.  A NodeInfo is represented by its id alone: equality of NodeInfo  *)
(* is equality of ids (routing/mod.rs, impl PartialEq for NodeInfo) and    *)
(* every table operation compares ids only.                                *)
(***************************************************************************)
EXTENDS Naturals, Integers, Sequences, FiniteSets

(***************************************************************************)
(* Sizes.  The source uses 160-bit hashes, buckets of 20 and 60 conflicts; *)
(* the model takes scaled-down values of the same parameters.                *)
(***************************************************************************)
HASH_SIZE == 3

K_FACTOR == 2

MAX_CONFLICTS == 1

\* Largest result width `n` handed to lookup.
MaxN == 2

\* Largest number of ids in a lookup blacklist.
MaxBlacklist == 1

\* Conflicts returned by update_node that a caller of the table keeps around.
MaxPool == 1

\* Worker threads spawned by the reception loop that run at the same time.
MaxThreads == 2

\* RPCs the node receives in one behaviour.
MaxRpcs == 3

\* Id of the node whose reception of RPCs is explored.
LocalId == 5

\* configuration.max_storage (10000 by default).
MAX_STORAGE == 1

\* configuration.max_storage_blob_size (1024 by default), in bytes.
MAX_STORAGE_BLOB_SIZE == 1

\* configuration.base_expiration_time_hrs (24 by default), in ticks of the clock.
BASE_EXPIRATION_TIME_HRS == 3

\* Largest key handed to the storage.
MaxKey == 1

\* Last tick of the clock.
MaxTime == 2

\* Calls of the storage in one behaviour.
MaxCalls == 3

\* Buckets that the maintenance loop finds due for a refresh in one behaviour.
MaxRefreshes == 1

\* RPCs that the reception loop receives in one behaviour, when the node is
\* explored together with its loops.
MaxLoopRpcs == 2

\* configuration.alpha (3 by default).
ALPHA == 2

\* Calls of store and mass_store in one behaviour.
MaxPublishes == 1

\* The divisor of k_factor in the count of StoreResponses that store and
\* mass_store wait for (3 in the source, where k_factor is 20).
QUORUM_DIVISOR == 2

\* The slots of the bus of updates (50 in the source).
UPDATE_BUS_SIZE_BYTES == 3

\* Bits in one element of SubotaiHash.raw (the source's u8 has 8).
BYTE_BITS == 1

VARIABLES
    parent_id,     \* Table.parent_id / Resources.id
    buckets,       \* Table.buckets: bucket index -> sequence of entries (front first)
    pool,          \* conflicts returned by update_node and still held by the caller
    last,          \* the most recent table call: its arguments, the bucket before it, its result
    state,         \* Resources.state
    conflicts,     \* Resources.conflicts
    conflicts_held,\* the conflicts mutex is held by a handler that never releases it
    pc,            \* per worker thread: position in process_incoming_rpc / update_table
    todo,          \* per worker thread: descriptors still to be passed to update_table
    info,          \* per worker thread: argument of the running update_table
    defensive,     \* per worker thread: local `defensive` of update_table
    update_result, \* per worker thread: local `update_result` of update_table
    off_grid,      \* per worker thread: local `off_grid` of update_table
    is_new,        \* per worker thread: when update_table began the table did not hold `info`,
                   \* not even as the node evicted by an update that is not settled yet
    introduced,    \* ids received so far as the sender of an RPC or as the Found node of a LocateResponse
    received,      \* number of RPCs received so far
    dropped,       \* the Node handle has been dropped
    loop,          \* per background loop: its position
    conflicts_empty, \* local `conflicts_empty` of conflict_resolution_loop
    refreshes,     \* number of buckets the maintenance loop has refreshed so far
    last_probe,    \* Table.buckets: bucket index -> last_probe of the bucket
    maintenance,   \* maintenance_loop: its local last_republish; the bucket that its
                   \* pass refreshed and the entries that its pass handed to store
    key_groups,    \* Storage.key_groups: key -> Some(key group), or None without one
    now,           \* the clock that time::now() reads
    op,            \* per worker thread: the call of the storage it is in
    returned,      \* the last call of the storage that returned: arguments and result,
                   \* and for a retrieve the call that had returned last when it began
    calls,         \* number of calls of the storage so far
    publish,       \* the call of Resources::store or mass_store: position, arguments, result
    outbound,      \* the RPCs sent by the calls of store and mass_store
    steady,        \* the clock that time::SteadyTime::now() reads
    rx,            \* the reception iterator that is subscribed to the bus of updates
    wave           \* the call of locate or probe and its wave: position, locals, result

tableVars == <<parent_id, buckets, pool, last>>

loopVars == <<dropped, loop, conflicts_empty, refreshes, last_probe, maintenance>>

storageVars == <<key_groups, now, op, returned, calls>>

waveVars == <<steady, rx, wave>>

apiVars == <<publish, outbound, waveVars>>

nodeVars == <<state, conflicts, conflicts_held, pc, todo, info, defensive,
              update_result, off_grid, is_new, introduced, received, loopVars,
              storageVars, apiVars>>

vars == <<tableVars, nodeVars>>

-----------------------------------------------------------------------------
(***************************************************************************)
(* Option values: None is the empty sequence, Some(x) the sequence <<x>>.  *)
(***************************************************************************)
None == <<>>

Some(x) == <<x>>

unwrap_or(o, d) == IF o = None THEN d ELSE o[1]

-----------------------------------------------------------------------------
(***************************************************************************)
(* Identifier algebra (hash/mod.rs).                                       *)
(***************************************************************************)
IDs == 0 .. (2^HASH_SIZE - 1)

Indices == 0 .. (HASH_SIZE - 1)

\* Bit `i` of hash `h`: raw[i / 8] & (1 << (i % 8)).
Bit(h, i) == (h \div (2^i)) % 2

RECURSIVE XorFrom(_, _, _)
XorFrom(a, b, i) ==
    IF i = HASH_SIZE THEN 0
    ELSE (IF Bit(a, i) = Bit(b, i) THEN 0 ELSE 2^i) + XorFrom(a, b, i + 1)

XorTable == [a \in IDs |-> [b \in IDs |-> XorFrom(a, b, 0)]]

\* BitXor for SubotaiHash: position by position.
bitxor(a, b) == XorTable[a][b]

\* Ord for SubotaiHash: bytes compared from the most significant one.
cmp_less(a, b) == a < b

RECURSIVE HeightFrom(_, _)
HeightFrom(h, i) ==
    IF i < 0 THEN None
    ELSE IF Bit(h, i) = 1 THEN Some(i)
    ELSE HeightFrom(h, i - 1)

\* SubotaiHash::height: index of the highest "1", None for a blank hash.
height(h) == HeightFrom(h, HASH_SIZE - 1)

RECURSIVE OnesBack(_, _)
OnesBack(h, rev) ==
    IF rev = 0 THEN <<>>
    ELSE IF Bit(h, rev - 1) = 1 THEN <<rev - 1>> \o OnesBack(h, rev - 1)
    ELSE OnesBack(h, rev - 1)

\* into_ones().rev(): positions of the "1" bits, highest first.
into_ones_rev(h) == OnesBack(h, HASH_SIZE)

RECURSIVE ZeroesFrom(_, _)
ZeroesFrom(h, index) ==
    IF index = HASH_SIZE THEN <<>>
    ELSE IF Bit(h, index) = 0 THEN <<index>> \o ZeroesFrom(h, index + 1)
    ELSE ZeroesFrom(h, index + 1)

\* into_zeroes(): positions of the "0" bits, lowest first.
into_zeroes(h) == ZeroesFrom(h, 0)

-----------------------------------------------------------------------------
(***************************************************************************)
(* Sequence helpers standing for the VecDeque / Vec / iterator methods     *)
(* the table uses.                                                         *)
(***************************************************************************)
SeqSet(s) == {s[k] : k \in 1 .. Len(s)}

Contains(s, x) == \E k \in 1 .. Len(s) : s[k] = x

\* VecDeque::retain(|stored| id != stored.id)
Retain(s, id) == SelectSeq(s, LAMBDA e : e # id)

\* Iterator::take(n)
Take(s, n) == SubSeq(s, 1, IF n < Len(s) THEN n ELSE Len(s))

\* Repeated Vec::pop: the elements from the last to the first.
Drain(s) == [k \in 1 .. Len(s) |-> s[Len(s) + 1 - k]]

RECURSIVE InsertDesc(_, _, _)
InsertDesc(sorted, e, reference) ==
    IF sorted = <<>> THEN <<e>>
    ELSE IF cmp_less(bitxor(Head(sorted), reference), bitxor(e, reference))
         THEN <<e>> \o sorted
         ELSE <<Head(sorted)>> \o InsertDesc(Tail(sorted), e, reference)

RECURSIVE SortDesc(_, _)
\* sort_by(|a, b| (b.id ^ reference).cmp(&(a.id ^ reference))): a stable sort,
\* farthest from the reference first.
SortDesc(s, reference) ==
    IF s = <<>> THEN <<>>
    ELSE InsertDesc(SortDesc(SubSeq(s, 1, Len(s) - 1), reference), s[Len(s)], reference)

-----------------------------------------------------------------------------
(***************************************************************************)
(* Routing table (routing/mod.rs).                                         *)
(***************************************************************************)
\* Table::new: HASH_SIZE empty buckets.
EmptyBuckets == [i \in Indices |-> <<>>]

\* Table::len: the number of entries over all buckets.
RECURSIVE LenFrom(_, _)
LenFrom(bk, i) == IF i = HASH_SIZE THEN 0 ELSE Len(bk[i]) + LenFrom(bk, i + 1)

table_len(bk) == LenFrom(bk, 0)

\* Variant of bucket_for_node that takes the height of the id instead of the
\* height of its distance to the parent.
bucket_for_node_of_id(parent, id) == unwrap_or(height(id), 0)

\* Variant of bucket_for_node that sends a distance without height to the last
\* bucket instead of bucket 0.
bucket_for_node_last(parent, id) == unwrap_or(height(bitxor(parent, id)), HASH_SIZE - 1)

\* Table::bucket_for_node: (parent_id ^ id).height().unwrap_or(0)
bucket_for_node(parent, id) == unwrap_or(height(bitxor(parent, id)), 0)

\* EvictionConflict { evicted, evictor, times_pinged }
EvictionConflict(evicted, evictor) ==
    [evicted |-> evicted, evictor |-> evictor, times_pinged |-> 0]

AddedNode == [kind |-> "AddedNode"]

UpdatedNode == [kind |-> "UpdatedNode"]

CausedConflict(c) == [kind |-> "CausedConflict", conflict |-> c]

\* Variant of update_bucket that never finds the bucket full, so never evicts.
update_bucket_no_eviction(entries, node) ==
    LET retained == Retain(entries, node)
    IN  [entries |-> Append(retained, node),
         result  |-> IF Contains(entries, node) THEN UpdatedNode ELSE AddedNode]

\* Variant of update_bucket that evicts the back of a full bucket instead of its
\* front.
update_bucket_evict_back(entries, node) ==
    LET retained == Retain(entries, node)
        full     == Len(retained) = K_FACTOR
        kept     == IF full THEN SubSeq(retained, 1, Len(retained) - 1) ELSE retained
    IN  [entries |-> Append(kept, node),
         result  |-> IF full
                     THEN CausedConflict(EvictionConflict(retained[Len(retained)], node))
                     ELSE IF Contains(entries, node) THEN UpdatedNode
                     ELSE AddedNode]

\* Variant of update_bucket that names the back entry of the full bucket in the
\* conflict while it removes the front one.
update_bucket_names_back(entries, node) ==
    LET retained == Retain(entries, node)
        full     == Len(retained) = K_FACTOR
        kept     == IF full THEN Tail(retained) ELSE retained
    IN  [entries |-> Append(kept, node),
         result  |-> IF full
                     THEN CausedConflict(EvictionConflict(retained[Len(retained)], node))
                     ELSE IF Contains(entries, node) THEN UpdatedNode
                     ELSE AddedNode]

\* Table::update_node on the bucket of `node`: the bucket afterwards and the result.
update_bucket(entries, node) ==
    LET retained == Retain(entries, node)
        full     == Len(retained) = K_FACTOR
        kept     == IF full THEN Tail(retained) ELSE retained
    IN  [entries |-> Append(kept, node),
         result  |-> IF full THEN CausedConflict(EvictionConflict(Head(retained), node))
                     ELSE IF Contains(entries, node) THEN UpdatedNode
                     ELSE AddedNode]

\* Table::update_node: the table afterwards and the UpdateResult.
update_node(parent, bk, node) ==
    LET index == bucket_for_node(parent, node)
        upd   == update_bucket(bk[index], node)
    IN  [buckets |-> [bk EXCEPT ![index] = upd.entries], result |-> upd.result]

\* entries.iter_mut().find(|info| id == info.id): the first position holding `id`, 0 if none.
Position(entries, id) ==
    IF Contains(entries, id)
    THEN CHOOSE k \in 1 .. Len(entries) :
            entries[k] = id /\ \A j \in 1 .. (k - 1) : entries[j] # id
    ELSE 0

\* Variant of revert_conflict with the roles exchanged: it looks for the evicted
\* id and puts the evictor in its place.
revert_conflict_swapped(parent, bk, conflict) ==
    LET index == bucket_for_node(parent, conflict.evicted)
        k     == Position(bk[index], conflict.evicted)
    IN  IF k = 0 THEN bk
        ELSE [bk EXCEPT ![index] = [@ EXCEPT ![k] = conflict.evictor]]

\* Table::revert_conflict: mem::replace of the evictor's entry by the evicted descriptor.
revert_conflict(parent, bk, conflict) ==
    LET index == bucket_for_node(parent, conflict.evictor)
        k     == Position(bk[index], conflict.evictor)
    IN  IF k = 0 THEN bk
        ELSE [bk EXCEPT ![index] = [@ EXCEPT ![k] = conflict.evicted]]

\* Table::specific_node
specific_node(parent, bk, id) ==
    LET entries == bk[bucket_for_node(parent, id)]
    IN  IF Contains(entries, id) THEN Some(id) ELSE None

\* Variant of lookup_order that goes through the "1"s of the distance in ascending
\* order too.
lookup_order_ascending(parent, id) ==
    LET distance == bitxor(parent, id)
    IN  Drain(into_ones_rev(distance)) \o into_zeroes(distance)

\* descent.chain(ascent) of Table::closest_nodes_to
lookup_order(parent, id) ==
    LET distance == bitxor(parent, id)
    IN  into_ones_rev(distance) \o into_zeroes(distance)

RECURSIVE WalkFrom(_, _, _, _)
\* ClosestNodesTo::next until exhaustion: bucket after bucket in lookup order, each
\* one sorted farthest first and then popped from its end.
WalkFrom(bk, order, k, reference) ==
    IF k > Len(order) THEN <<>>
    ELSE Drain(SortDesc(bk[order[k]], reference)) \o WalkFrom(bk, order, k + 1, reference)

\* Table::closest_nodes_to, collected.
closest_nodes_to(parent, bk, id) == WalkFrom(bk, lookup_order(parent, id), 1, id)

\* Table::is_allowed; a blacklist is None or Some(set of ids).
is_allowed(id, blacklist) ==
    IF blacklist # None THEN id \notin blacklist[1] ELSE TRUE

Found(node) == [kind |-> "Found", node |-> node]

ClosestNodes(nodes) == [kind |-> "ClosestNodes", nodes |-> nodes]

Nothing == [kind |-> "Nothing"]

\* Variant of lookup that takes the n closest entries before it filters them
\* through the blacklist.
lookup_take_first(parent, bk, id, n, blacklist) ==
    LET found == specific_node(parent, bk, id)
    IN  IF found # None THEN Found(found[1])
        ELSE LET closest == SelectSeq(Take(closest_nodes_to(parent, bk, id), n),
                                      LAMBDA e : is_allowed(e, blacklist))
             IN  IF closest = <<>> THEN Nothing ELSE ClosestNodes(closest)

\* Table::lookup
lookup(parent, bk, id, n, blacklist) ==
    LET found == specific_node(parent, bk, id)
    IN  IF found # None THEN Found(found[1])
        ELSE LET closest == Take(SelectSeq(closest_nodes_to(parent, bk, id),
                                           LAMBDA e : is_allowed(e, blacklist)), n)
             IN  IF closest = <<>> THEN Nothing ELSE ClosestNodes(closest)

-----------------------------------------------------------------------------
(***************************************************************************)
(* The table on its own: any sequence of calls of its methods, each call   *)
(* atomic (every method holds the lock of the one bucket it works on).     *)
(* `pool` holds the conflicts handed back by update_node that the caller   *)
(* still keeps; with each it records the bucket before and after the       *)
(* update that created it.                                                 *)
(***************************************************************************)
Threads == 1 .. MaxThreads

Blacklists ==
    {None} \cup {Some(b) : b \in {x \in SUBSET IDs : Cardinality(x) <= MaxBlacklist}}

\* Node::with_configuration, the fields of Resources other than the table.
\* The three loops spawned by with_configuration, each at its first statement.
Loops == {"reception", "conflict_resolution", "maintenance"}

LoopsSpawned ==
    /\ dropped = FALSE
    /\ loop = [l \in Loops |-> IF l = "conflict_resolution" THEN "lock" ELSE "wait"]
    /\ conflicts_empty = TRUE
    /\ refreshes = 0
    /\ last_probe = [i \in Indices |-> None]
    /\ maintenance = [last_republish |-> 0, refreshed |-> None, republished |-> None]

\* Keys of the storage.
StorageKeys == 0 .. MaxKey

\* Storage::new: no key group; no call of the storage yet.
StorageNew ==
    /\ key_groups = [key \in StorageKeys |-> None]
    /\ now = 0
    /\ op = [t \in Threads |-> None]
    /\ returned = None
    /\ calls = 0

\* No call of store or mass_store yet.
NoPublish ==
    /\ publish = [pc |-> "idle", key |-> 0, mass |-> FALSE, candidates |-> {},
                  result |-> None, calls |-> 0, responders |-> <<>>]
    /\ outbound = {}

\* enum resources::Update: what the bus `updates` carries.
Update_Tick == [kind |-> "Tick"]

Update_RpcReceived(rpc) == [kind |-> "RpcReceived", rpc |-> rpc]

Update_StateChange(st) == [kind |-> "StateChange", state |-> st]

\* No Receptions iterator holds a receiver of the bus.
NoReceptions ==
    [pc |-> "none", timeout |-> None, kind_filter |-> None, sender_filter |-> None,
     shutdown |-> FALSE, queue |-> <<>>, filter |-> None, take |-> None,
     yielded |-> <<>>, heard |-> <<>>]

\* Whether a receiver of the bus is alive: the iterator owns it from
\* Receptions::new until its consumer drops it.
subscribed(r) == r.pc \notin {"none", "done"}

\* Bus::broadcast blocks while the ring of a live receiver has no free slot.
room(r, n) == subscribed(r) => Len(r.queue) + n <= UPDATE_BUS_SIZE_BYTES

\* updates.broadcast(update) for each update of `us` in turn: every live receiver
\* is handed a copy, in the order of the broadcasts.  `heard` records the RPCs
\* among them.
broadcast(r, us) ==
    IF subscribed(r)
    THEN [r EXCEPT !.queue = @ \o us,
                   !.heard = @ \o [i \in 1 .. Len(SelectSeq(us, LAMBDA u : u.kind = "RpcReceived")) |->
                                      SelectSeq(us, LAMBDA u : u.kind = "RpcReceived")[i].rpc]]
    ELSE r

\* No call of locate or probe yet, and no iterator.
NoWave ==
    /\ steady = 0
    /\ rx = NoReceptions
    /\ wave = [pc |-> "idle", op |-> None, target |-> 0, depth |-> 0, closest |-> <<>>,
               nodes_to_query |-> <<>>, queried |-> <<>>, deadline |-> 0,
               result |-> None, calls |-> 0, known |-> <<>>, named |-> {},
               expected |-> 0]

NodeIdle ==
    /\ LoopsSpawned
    /\ StorageNew
    /\ NoPublish
    /\ NoWave
    /\ state = "OffGrid"
    /\ conflicts = <<>>
    /\ conflicts_held = FALSE
    /\ pc = [t \in Threads |-> "idle"]
    /\ todo = [t \in Threads |-> <<>>]
    /\ info = [t \in Threads |-> None]
    /\ defensive = [t \in Threads |-> FALSE]
    /\ update_result = [t \in Threads |-> None]
    /\ off_grid = [t \in Threads |-> FALSE]
    /\ is_new = [t \in Threads |-> FALSE]
    /\ introduced = {}
    /\ received = 0

\* Table::new(id)
TableInit ==
    /\ parent_id \in IDs
    /\ buckets = EmptyBuckets
    /\ pool = {}
    /\ last = [op |-> "new"]
    /\ NodeIdle

\* table.update_node(node); the caller keeps a returned conflict if it has room for it.
UpdateNode(node) ==
    LET index == bucket_for_node(parent_id, node)
        upd   == update_node(parent_id, buckets, node)
    IN  /\ buckets' = upd.buckets
        /\ last' = [op |-> "update_node", node |-> node, index |-> index,
                    pre |-> buckets[index], result |-> upd.result]
        /\ pool' = IF upd.result.kind = "CausedConflict" /\ Cardinality(pool) < MaxPool
                   THEN pool \cup {[conflict |-> upd.result.conflict,
                                    pre |-> buckets[index],
                                    post |-> upd.buckets[index]]}
                   ELSE pool
        /\ UNCHANGED <<parent_id, nodeVars>>

\* The caller drops a conflict without reverting it.
ForgetConflict(entry) ==
    /\ entry \in pool
    /\ pool' = pool \ {entry}
    /\ UNCHANGED <<parent_id, buckets, last, nodeVars>>

\* table.revert_conflict(conflict) for a conflict the caller kept.
RevertConflict(entry) ==
    LET index == bucket_for_node(parent_id, entry.conflict.evictor)
    IN  /\ entry \in pool
        /\ buckets' = revert_conflict(parent_id, buckets, entry.conflict)
        /\ pool' = pool \ {entry}
        /\ last' = [op |-> "revert_conflict", conflict |-> entry.conflict, index |-> index,
                    pre |-> buckets[index], created_pre |-> entry.pre,
                    created_post |-> entry.post]
        /\ UNCHANGED <<parent_id, nodeVars>>

TableNext ==
    \/ \E node \in IDs : UpdateNode(node)
    \/ \E entry \in pool : ForgetConflict(entry)
    \/ \E entry \in pool : RevertConflict(entry)

SpecTable == TableInit /\ [][TableNext]_vars

-----------------------------------------------------------------------------
(***************************************************************************)
(* Queries on the table.  A caller makes one call at a time: `last` holds  *)
(* the call and its result until the caller has looked at it.              *)
(***************************************************************************)
NoCall == [op |-> "new"]

\* table.update_node(node) by a caller that looks at the result only to keep
\* (keep = TRUE) or drop a returned conflict.
InsertNode(node, keep) ==
    LET index == bucket_for_node(parent_id, node)
        upd   == update_node(parent_id, buckets, node)
    IN  /\ last = NoCall
        /\ buckets' = upd.buckets
        /\ pool' = IF /\ keep
                      /\ upd.result.kind = "CausedConflict"
                      /\ Cardinality(pool) < MaxPool
                   THEN pool \cup {[conflict |-> upd.result.conflict,
                                    pre |-> buckets[index],
                                    post |-> upd.buckets[index]]}
                   ELSE pool
        /\ UNCHANGED <<parent_id, last, nodeVars>>

\* table.revert_conflict(conflict) for a conflict the caller kept.
RestoreEvicted(entry) ==
    /\ last = NoCall
    /\ entry \in pool
    /\ buckets' = revert_conflict(parent_id, buckets, entry.conflict)
    /\ pool' = pool \ {entry}
    /\ UNCHANGED <<parent_id, last, nodeVars>>

\* table.closest_nodes_to(id).collect()
ClosestNodesTo(id) ==
    /\ last = NoCall
    /\ last' = [op |-> "closest_nodes_to", id |-> id,
                result |-> closest_nodes_to(parent_id, buckets, id)]
    /\ UNCHANGED <<parent_id, buckets, pool, nodeVars>>

\* table.lookup(id, n, blacklist)
Lookup(id, n, blacklist) ==
    /\ last = NoCall
    /\ last' = [op |-> "lookup", id |-> id, n |-> n, blacklist |-> blacklist,
                result |-> lookup(parent_id, buckets, id, n, blacklist)]
    /\ UNCHANGED <<parent_id, buckets, pool, nodeVars>>

\* The caller is done with the result of its query.
Return ==
    /\ last # NoCall
    /\ last' = NoCall
    /\ UNCHANGED <<parent_id, buckets, pool, nodeVars>>

WalkNext ==
    \/ \E node \in IDs, keep \in BOOLEAN : InsertNode(node, keep)
    \/ \E entry \in pool : RestoreEvicted(entry)
    \/ \E id \in IDs : ClosestNodesTo(id)
    \/ Return

\* Any sequence of updates and reversions, with closest_nodes_to in between.
SpecWalk == TableInit /\ [][WalkNext]_vars

LookupNext ==
    \/ \E node \in IDs : InsertNode(node, FALSE)
    \/ \E id \in IDs, n \in 0 .. MaxN, blacklist \in Blacklists : Lookup(id, n, blacklist)
    \/ Return

\* Any sequence of updates, with lookup in between.
SpecLookup == TableInit /\ [][LookupNext]_vars

-----------------------------------------------------------------------------
(***************************************************************************)
(* Properties of the routing table.                                        *)
(***************************************************************************)
\* XOR distance of a stored descriptor to an id.
Distance(p, id) == bitxor(p, id)

\* Bucket i is the bucket of the ids whose distance d to the parent has its
\* highest "1" at position i: 2^i <= d < 2^(i+1).
HasHeight(p, i) == 2^i <= Distance(p, parent_id) /\ Distance(p, parent_id) < 2^(i + 1)

\* The slots of the table: <<bucket index, position>>.
Slots == UNION {{<<i, k>> : k \in 1 .. Len(buckets[i])} : i \in Indices}

Stored == {buckets[s[1]][s[2]] : s \in Slots}

\* Number of slots of the table holding p.
StoredCount(p) == Cardinality({s \in Slots : buckets[s[1]][s[2]] = p})

\* Number of positions of the sequence r holding p.
Occurrences(r, p) == Cardinality({k \in 1 .. Len(r) : r[k] = p})

Ascending(r, id) ==
    \A k \in 1 .. (Len(r) - 1) : Distance(r[k], id) <= Distance(r[k + 1], id)

\* C1: after any sequence of update_node and revert_conflict calls every bucket
\* holds at most K_FACTOR descriptors.
C1_BucketsBounded == \A i \in Indices : Len(buckets[i]) <= K_FACTOR

\* A full bucket took an update that evicted its front entry.
C1_Witness ==
    /\ last.op = "update_node"
    /\ last.result.kind = "CausedConflict"
    /\ Len(buckets[last.index]) = K_FACTOR

\* C2 as stated: an update for p # parent_id leaves p in bucket height(parent_id ^ p)
\* and in no other bucket, and bucket i only ever holds ids whose distance to
\* parent_id has height i.
C2_Original ==
    /\ last.op = "update_node" /\ last.node # parent_id
          => \A i \in Indices : Contains(buckets[i], last.node) <=> HasHeight(last.node, i)
    /\ \A s \in Slots : HasHeight(buckets[s[1]][s[2]], s[1])

\* C2, amended: as C2_Original, except that bucket 0 may also hold parent_id
\* itself, whose distance to parent_id is zero and has no height.
C2_Placement ==
    /\ last.op = "update_node" /\ last.node # parent_id
          => \A i \in Indices : Contains(buckets[i], last.node) <=> HasHeight(last.node, i)
    /\ \A s \in Slots :
          \/ HasHeight(buckets[s[1]][s[2]], s[1])
          \/ buckets[s[1]][s[2]] = parent_id /\ s[1] = 0

\* An update placed a remote id in a bucket other than bucket 0 while other
\* buckets hold entries too.
C2_Witness ==
    /\ last.op = "update_node"
    /\ last.node # parent_id
    /\ last.index > 0
    /\ Contains(buckets[last.index], last.node)
    /\ \E i \in Indices : i # last.index /\ buckets[i] # <<>>

\* C3 as stated: parent_id is in no bucket, and an update carrying parent_id
\* leaves the table as it was.
C3_Original ==
    /\ parent_id \notin Stored
    /\ last.op = "update_node" /\ last.node = parent_id
          => buckets[last.index] = last.pre

\* C3, amended: parent_id is in no bucket other than bucket 0, and an update
\* carrying parent_id is not rejected: it leaves parent_id at the back of bucket 0.
C3_LocalOnlyInBucketZero ==
    /\ \A s \in Slots : buckets[s[1]][s[2]] = parent_id => s[1] = 0
    /\ last.op = "update_node" /\ last.node = parent_id
          => /\ last.index = 0
             /\ buckets[0] # <<>>
             /\ buckets[0][Len(buckets[0])] = parent_id
             /\ last.result.kind \in {"AddedNode", "UpdatedNode"}

\* An update carrying parent_id has run on a table that holds other ids.
C3_Witness ==
    /\ last.op = "update_node"
    /\ last.node = parent_id
    /\ \E i \in Indices : i > 0 /\ buckets[i] # <<>>

\* C4: an update of a bucket with fewer than K_FACTOR entries causes no conflict;
\* an update of a full bucket with an id it does not hold causes the conflict
\* (evicted = former front, evictor = the new id, times_pinged = 0) and leaves the
\* new id at the back of the bucket behind the other former entries.
C4_ConflictOnFullBucket ==
    last.op = "update_node" =>
        /\ Len(last.pre) < K_FACTOR => last.result.kind # "CausedConflict"
        /\ Len(last.pre) = K_FACTOR /\ ~Contains(last.pre, last.node) =>
              /\ last.result = [kind |-> "CausedConflict",
                                conflict |-> [evicted |-> last.pre[1],
                                              evictor |-> last.node,
                                              times_pinged |-> 0]]
              /\ buckets[last.index] = Tail(last.pre) \o <<last.node>>

\* A bucket of K_FACTOR distinct ids took an update with a further id.
C4_Witness ==
    /\ last.op = "update_node"
    /\ Len(last.pre) = K_FACTOR
    /\ Cardinality(SeqSet(last.pre)) = K_FACTOR
    /\ ~Contains(last.pre, last.node)
    /\ last.result.kind = "CausedConflict"

\* C10 as stated: reverting a conflict whose evictor is in its bucket leaves the
\* evictor absent, the evicted id present, and the bucket with the set of ids it
\* had before the update that created the conflict.
C10_Original ==
    last.op = "revert_conflict" /\ Contains(last.pre, last.conflict.evictor) =>
        /\ last.conflict.evictor \notin Stored
        /\ Contains(buckets[last.index], last.conflict.evicted)
        /\ SeqSet(buckets[last.index]) = SeqSet(last.created_pre)

\* C10, amended: reverting a conflict whose evictor is in its bucket puts the
\* evicted id in the place of the first entry of the evictor and leaves the other
\* entries alone; when the bucket is as the update that created the conflict left
\* it, the evictor is then absent and the bucket has the set of ids it had before
\* that update.
C10_RevertRestores ==
    last.op = "revert_conflict" /\ Contains(last.pre, last.conflict.evictor) =>
        /\ buckets[last.index] =
              [last.pre EXCEPT ![Position(last.pre, last.conflict.evictor)] =
                                  last.conflict.evicted]
        /\ Contains(buckets[last.index], last.conflict.evicted)
        /\ last.pre = last.created_post =>
              /\ last.conflict.evictor \notin Stored
              /\ SeqSet(buckets[last.index]) = SeqSet(last.created_pre)

\* A conflict was reverted on the bucket as its update left it.
C10_Witness ==
    /\ last.op = "revert_conflict"
    /\ last.pre = last.created_post
    /\ Contains(last.pre, last.conflict.evictor)

\* C8: closest_nodes_to(id) yields every stored entry exactly once, in
\* non-decreasing distance to id.
C8_WalkIsSortedTable ==
    last.op = "closest_nodes_to" =>
        /\ Ascending(last.result, last.id)
        /\ \A p \in IDs : Occurrences(last.result, p) = StoredCount(p)

\* The walk went through a bucket at a "1" of the distance and a bucket at a "0".
C8_Witness ==
    /\ last.op = "closest_nodes_to"
    /\ Len(last.result) >= 3
    /\ \E i, j \in Indices :
          /\ buckets[i] # <<>> /\ Bit(bitxor(parent_id, last.id), i) = 1
          /\ buckets[j] # <<>> /\ Bit(bitxor(parent_id, last.id), j) = 0

\* What lookup(id, n, blacklist) may hand back when id is not stored: the first n
\* of the stored, not blacklisted entries in ascending distance to id.
IsClosest(r, id, n, blacklist) ==
    LET Allowed(p) == blacklist = None \/ p \notin blacklist[1]
        remaining  == Cardinality({s \in Slots : Allowed(buckets[s[1]][s[2]])})
    IN  /\ Len(r) = IF n < remaining THEN n ELSE remaining
        /\ Ascending(r, id)
        /\ \A k \in 1 .. Len(r) : Allowed(r[k]) /\ r[k] \in Stored
        /\ \A p \in IDs : Occurrences(r, p) <= StoredCount(p)
        /\ \A p \in Stored :
              Allowed(p) /\ Occurrences(r, p) < StoredCount(p)
                 => \A k \in 1 .. Len(r) : Distance(r[k], id) <= Distance(p, id)

NoneRemains(blacklist) ==
    \A p \in Stored : blacklist # None /\ p \in blacklist[1]

-----------------------------------------------------------------------------
(***************************************************************************)
(* The node (node/mod.rs, node/resources.rs).  The reception loop spawns   *)
(* one thread per received RPC; the thread runs process_incoming_rpc: the  *)
(* handler of the RPC's kind, then update_table(rpc.sender).  A step of a  *)
(* thread is what it does under one lock.                                  *)
(***************************************************************************)
\* The ids carried by the RPCs the node receives: the ids of its farthest bucket,
\* the bucket that more than K_FACTOR of the ids fall in, and one id of another
\* bucket.
Peers ==
    {id \in IDs : bucket_for_node(LocalId, id) = HASH_SIZE - 1} \cup {bitxor(LocalId, 2)}

\* rpc::Kind, as far as the handlers tell the kinds apart on the routing table:
\* "Ping" also stands for Locate, Probe, Store, MassStore and Retrieve, whose
\* handlers read the table or the storage and answer the sender.
Rpcs ==
    [kind : {"Ping", "PingResponse"}, sender : Peers, payload : {None}]
    \cup [kind : {"LocateResponse"}, sender : Peers,
          payload : {Found(n) : n \in Peers} \cup {ClosestNodes(<<n>>) : n \in Peers}
                    \cup {Nothing}]
    \cup [kind : {"ProbeResponse", "RetrieveResponse"}, sender : Peers,
          payload : {ClosestNodes(<<n>>) : n \in Peers}]

\* Variant of handler_updates that also passes the nodes listed in a response
\* on to update_table.
handler_updates_listed(rpc) ==
    IF rpc.payload = None \/ rpc.payload.kind = "Nothing" THEN <<>>
    ELSE IF rpc.payload.kind = "Found" THEN <<rpc.payload.node>>
    ELSE rpc.payload.nodes

\* The descriptors the handler of the RPC's kind passes to update_table: only
\* handle_locate_response does, for a Found result.
handler_updates(rpc) ==
    IF rpc.kind = "LocateResponse" /\ rpc.payload.kind = "Found"
    THEN <<rpc.payload.node>>
    ELSE <<>>

\* process_incoming_rpc: the handler's updates, then update_table(rpc.sender).
update_targets(rpc) == handler_updates(rpc) \o <<rpc.sender>>

\* revert_conflicts_for_sender: the position in the queue of the first conflict
\* whose evicted node is the sender, 0 if none.
ConflictFor(queue, sender_id) ==
    IF \E k \in 1 .. Len(queue) : queue[k].evicted = sender_id
    THEN CHOOSE k \in 1 .. Len(queue) :
            queue[k].evicted = sender_id /\ \A j \in 1 .. (k - 1) : queue[j].evicted # sender_id
    ELSE 0

\* Variant of push_conflict that tests the queue for more than MAX_CONFLICTS
\* entries.
push_conflict_late(queue, st, conflict) ==
    LET pushed == Append(queue, conflict)
    IN  [conflicts |-> pushed,
         state     |-> IF Len(pushed) > MAX_CONFLICTS THEN "Defensive" ELSE st]

\* update_table, under the conflicts lock: push the conflict and enter defensive
\* mode when the queue reaches max_conflicts.
push_conflict(queue, st, conflict) ==
    LET pushed == Append(queue, conflict)
    IN  [conflicts |-> pushed,
         state     |-> IF Len(pushed) = MAX_CONFLICTS THEN "Defensive" ELSE st]

\* Node::with_configuration: the table holds the local descriptor, the node is
\* off grid, no conflict is queued and no RPC is being processed.
Init ==
    /\ parent_id = LocalId
    /\ buckets = update_node(parent_id, EmptyBuckets, parent_id).buckets
    /\ pool = {}
    /\ last = NoCall
    /\ NodeIdle

Locals == <<info, defensive, update_result, off_grid, is_new>>

\* reception_loop spawns thread t for a received RPC; the thread runs the handler
\* of the RPC's kind up to its first update_table.  handle_ping_response locks
\* the conflicts queue to search it; when it finds a conflict for the sender it
\* locks the queue again while the first guard is alive, and neither the thread
\* nor the lock is seen again.
ProcessIncomingRpc(t, rpc) ==
    /\ pc[t] = "idle"
    /\ state # "ShuttingDown"
    /\ received < MaxRpcs
    /\ received' = received + 1
    /\ introduced' = introduced \cup {rpc.sender}
                        \cup IF rpc.kind = "LocateResponse" /\ rpc.payload.kind = "Found"
                             THEN {rpc.payload.node}
                             ELSE {}
    /\ IF rpc.kind = "PingResponse"
       THEN IF conflicts_held
            THEN /\ pc' = [pc EXCEPT ![t] = "blocked"]
                 /\ UNCHANGED <<conflicts_held, todo>>
            ELSE IF ConflictFor(conflicts, rpc.sender) # 0
            THEN /\ pc' = [pc EXCEPT ![t] = "blocked"]
                 /\ conflicts_held' = TRUE
                 /\ UNCHANGED todo
            ELSE /\ pc' = [pc EXCEPT ![t] = "update_table"]
                 /\ todo' = [todo EXCEPT ![t] = update_targets(rpc)]
                 /\ UNCHANGED conflicts_held
       ELSE /\ pc' = [pc EXCEPT ![t] = "update_table"]
            /\ todo' = [todo EXCEPT ![t] = update_targets(rpc)]
            /\ UNCHANGED conflicts_held
    /\ UNCHANGED <<loopVars, storageVars, apiVars, tableVars, state, conflicts, Locals>>

\* update_table(info): let defensive = state == Defensive
ReadDefensive(t) ==
    /\ pc[t] = "update_table"
    /\ info' = [info EXCEPT ![t] = Some(Head(todo[t]))]
    /\ todo' = [todo EXCEPT ![t] = Tail(todo[t])]
    /\ defensive' = [defensive EXCEPT ![t] = (state = "Defensive")]
    /\ is_new' = [is_new EXCEPT ![t] =
                     /\ specific_node(parent_id, buckets, Head(todo[t])) = None
                     /\ \A u \in Threads :
                           pc[u] \in {"revert_conflict", "push"}
                              => update_result[u][1].conflict.evicted # Head(todo[t])]
    /\ pc' = [pc EXCEPT ![t] = "update_node"]
    /\ UNCHANGED <<loopVars, storageVars, apiVars, tableVars, state, conflicts, conflicts_held, update_result,
                   off_grid, introduced, received>>

\* The locals of update_table that its last two steps do not read are forgotten.
Forget(t) ==
    /\ info' = [info EXCEPT ![t] = None]
    /\ defensive' = [defensive EXCEPT ![t] = FALSE]
    /\ update_result' = [update_result EXCEPT ![t] = None]
    /\ is_new' = [is_new EXCEPT ![t] = FALSE]

\* update_table: let update_result = self.table.update_node(info)
TableUpdateNode(t) ==
    /\ pc[t] = "update_node"
    /\ LET upd == update_node(parent_id, buckets, info[t][1])
       IN  /\ buckets' = upd.buckets
           /\ IF upd.result.kind = "CausedConflict"
              THEN /\ update_result' = [update_result EXCEPT ![t] = Some(upd.result)]
                   /\ pc' = [pc EXCEPT ![t] =
                                IF defensive[t] THEN "revert_conflict" ELSE "push"]
                   /\ UNCHANGED <<info, defensive, is_new>>
              ELSE /\ pc' = [pc EXCEPT ![t] = "read_state"]
                   /\ Forget(t)
    /\ UNCHANGED <<loopVars, storageVars, apiVars, parent_id, pool, last, state, conflicts, conflicts_held, todo,
                   off_grid, introduced, received>>

\* update_table, defensive: self.table.revert_conflict(conflict)
TableRevertConflict(t) ==
    /\ pc[t] = "revert_conflict"
    /\ buckets' = revert_conflict(parent_id, buckets, update_result[t][1].conflict)
    /\ pc' = [pc EXCEPT ![t] = "read_state"]
    /\ Forget(t)
    /\ UNCHANGED <<loopVars, storageVars, apiVars, parent_id, pool, last, state, conflicts, conflicts_held, todo,
                   off_grid, introduced, received>>

\* update_table, not defensive: conflicts.push(conflict) and the change of state,
\* both under the conflicts lock.
PushConflict(t) ==
    /\ pc[t] = "push"
    /\ ~conflicts_held
    /\ LET pushed == push_conflict(conflicts, state, update_result[t][1].conflict)
       IN  /\ conflicts' = pushed.conflicts
           /\ state' = pushed.state
    /\ pc' = [pc EXCEPT ![t] = "read_state"]
    /\ Forget(t)
    /\ UNCHANGED <<loopVars, storageVars, apiVars, tableVars, conflicts_held, todo, off_grid, introduced, received>>

\* update_table: let off_grid = state == OffGrid
ReadOffGrid(t) ==
    /\ pc[t] = "read_state"
    /\ off_grid' = [off_grid EXCEPT ![t] = (state = "OffGrid")]
    /\ pc' = [pc EXCEPT ![t] = "go_on_grid"]
    /\ UNCHANGED <<loopVars, storageVars, apiVars, tableVars, state, conflicts, conflicts_held, todo, info,
                   defensive, update_result, is_new, introduced, received>>

\* The test of update_table with the bound of the table included.
leaves_off_grid_at_bound(was_off_grid, len) == was_off_grid /\ len >= K_FACTOR

\* update_table: the test `off_grid && self.table.len() > k_factor`.
leaves_off_grid(was_off_grid, len) == was_off_grid /\ len > K_FACTOR

\* update_table: if off_grid && table.len() > k_factor { set_state(OnGrid) }; then
\* the next update_table of the thread, or its end.
GoOnGrid(t) ==
    /\ pc[t] = "go_on_grid"
    /\ state' = IF leaves_off_grid(off_grid[t], table_len(buckets)) THEN "OnGrid" ELSE state
    /\ pc' = [pc EXCEPT ![t] = IF todo[t] # <<>> THEN "update_table" ELSE "idle"]
    /\ off_grid' = [off_grid EXCEPT ![t] = FALSE]
    /\ UNCHANGED <<loopVars, storageVars, apiVars, tableVars, conflicts, conflicts_held, todo, info, defensive,
                   update_result, is_new, introduced, received>>

Next ==
    \/ \E t \in Threads, rpc \in Rpcs : ProcessIncomingRpc(t, rpc)
    \/ \E t \in Threads : ReadDefensive(t)
    \/ \E t \in Threads : TableUpdateNode(t)
    \/ \E t \in Threads : TableRevertConflict(t)
    \/ \E t \in Threads : PushConflict(t)
    \/ \E t \in Threads : ReadOffGrid(t)
    \/ \E t \in Threads : GoOnGrid(t)

Spec == Init /\ [][Next]_vars

-----------------------------------------------------------------------------
(***************************************************************************)
(* Properties of the node.                                                 *)
(***************************************************************************)
\* Thread t takes the step that leads from position `from` to position `to`.
Steps(t, from, to) == pc[t] = from /\ pc'[t] = to

\* C5: when update_table, having found the node not Defensive, pushes a conflict
\* that brings the queue to MAX_CONFLICTS entries, the state becomes Defensive.
C5_DefensiveAtMaxConflicts ==
    [][\A t \in Threads :
          Steps(t, "push", "read_state") /\ ~defensive[t]
             /\ Len(conflicts') = MAX_CONFLICTS
          => state' = "Defensive"]_vars

\* A thread that found the node not Defensive has pushed the conflict that
\* filled the queue.
C5_Witness ==
    /\ Len(conflicts) = MAX_CONFLICTS
    /\ state = "Defensive"
    /\ \E t \in Threads : pc[t] = "read_state"
    /\ conflicts[Len(conflicts)].evictor \in Stored

\* C6 as stated: an update_table that found the node Defensive, for a node the
\* table did not hold, adds the node when the bucket has room and queues nothing;
\* when the bucket is full then, whatever other updates ran in between, after its
\* reversion the node is absent, the node it would have evicted is present and
\* nothing was queued.
C6_Original ==
    [][\A t \in Threads :
          defensive[t] /\ is_new[t] /\ state = "Defensive" =>
             /\ Steps(t, "update_node", "read_state")
                   => info[t][1] \in Stored' /\ conflicts' = conflicts
             /\ Steps(t, "update_node", "revert_conflict")
                   => conflicts' = conflicts
             /\ Steps(t, "revert_conflict", "read_state")
                   => /\ info[t][1] \notin Stored'
                      /\ update_result[t][1].conflict.evicted \in Stored'
                      /\ conflicts' = conflicts]_vars

\* C7: every id in the table other than the local one was the sender of a
\* received RPC or the Found node of a received LocateResponse.
C7_OnlySendersAndFound == Stored \subseteq introduced \cup {parent_id}

\* All RPCs are processed and every sender and Found node is in the table.
C7_Witness ==
    /\ received = MaxRpcs
    /\ \A t \in Threads : pc[t] = "idle"
    /\ Cardinality(introduced) >= 3
    /\ introduced \subseteq Stored

\* The conflicts in the queue.
Queued == {conflicts[k] : k \in 1 .. Len(conflicts)}

\* C11 as stated: the evicted node of every queued conflict is in no bucket and
\* its evictor is in the bucket the evicted node was removed from.
C11_Original ==
    \A c \in Queued :
        /\ c.evicted \notin Stored
        /\ Contains(buckets[bucket_for_node(parent_id, c.evicted)], c.evictor)

\* C11, amended: the update that creates a conflict leaves the evictor at the
\* back of the bucket and takes one entry of the evicted node out of that bucket;
\* a queued conflict names two different ids of one bucket, but later updates
\* may bring its evicted node back or push its evictor out.
C11_ConflictAtCreation ==
    /\ [](\A c \in Queued :
             /\ c.evicted # c.evictor
             /\ bucket_for_node(parent_id, c.evicted) = bucket_for_node(parent_id, c.evictor))
    /\ [][\A t \in Threads :
             pc[t] = "update_node" /\ pc'[t] \in {"push", "revert_conflict"} =>
                LET c     == update_result'[t][1].conflict
                    index == bucket_for_node(parent_id, c.evicted)
                IN  /\ c.evictor = info[t][1]
                    /\ index = bucket_for_node(parent_id, c.evictor)
                    /\ buckets'[index][Len(buckets'[index])] = c.evictor
                    /\ Occurrences(buckets'[index], c.evicted)
                          = Occurrences(buckets[index], c.evicted) - 1
                    /\ \A i \in Indices \ {index} : buckets'[i] = buckets[i]]_vars

\* A conflict is queued, its evictor is in the table and its evicted node is not.
C11_Witness ==
    \E c \in Queued : c.evicted \notin Stored /\ c.evictor \in Stored

-----------------------------------------------------------------------------
(* The storage of a node (src/src/storage/mod.rs).  A blob is its bytes, all *)
(* zero here: two blobs are equal when they have the same length.  A time is *)
(* a number of ticks; the base expiration time is BASE_EXPIRATION_TIME_HRS   *)
(* ticks.                                                                    *)

\* StorageEntry::Value
Value(hash) == [kind |-> "Value", hash |-> hash, bytes |-> <<>>]

\* StorageEntry::Blob
Blob(bytes) == [kind |-> "Blob", hash |-> 0, bytes |-> bytes]

\* The entries handed to the storage: a hash, and blobs up to one byte more than
\* MAX_STORAGE_BLOB_SIZE.
StorageEntries ==
    {Value(0)} \cup {Blob([i \in 1 .. n |-> 0]) : n \in 1 .. (MAX_STORAGE_BLOB_SIZE + 1)}

\* The expiration times handed to the storage: from times that are past at every
\* tick to a time beyond every clamp.
Expirations == 0 .. (MaxTime + BASE_EXPIRATION_TIME_HRS + 1)

\* ExtendedEntry { entry, expiration, republish_ready: false }
ExtendedEntry(entry, expiration) ==
    [entry |-> entry, expiration |-> expiration, republish_ready |-> FALSE]

\* The key group of `key`, empty when the map has none.
Group(groups, key) == unwrap_or(groups[key], <<>>)

RECURSIVE CountFrom(_, _)
CountFrom(groups, key) ==
    IF key > MaxKey THEN 0 ELSE Len(Group(groups, key)) + CountFrom(groups, key + 1)

\* Storage::len
storage_len(groups) == CountFrom(groups, 0)

\* Variant of is_big_blob that finds no blob big.
is_big_blob_never(entry) == FALSE

\* Storage::is_big_blob
is_big_blob(entry) == entry.kind = "Blob" /\ Len(entry.bytes) > MAX_STORAGE_BLOB_SIZE

Min(a, b) == IF a < b THEN a ELSE b

Max(a, b) == IF a < b THEN b ELSE a

\* Variant of clamped_expiration that keeps the requested time.
clamped_expiration_as_requested(expiration, time) == expiration

\* Storage::store: cmp::min(*expiration, time::now() + Duration::hours(base_expiration_time_hrs))
clamped_expiration(expiration, time) == Min(expiration, time + BASE_EXPIRATION_TIME_HRS)

\* key_group.iter_mut().find(|stored_pair| stored_pair.entry == *entry): the index
\* of the first pair of the entry, 0 if there is none.
Find(group, entry) ==
    IF \E i \in 1 .. Len(group) : group[i].entry = entry
    THEN CHOOSE i \in 1 .. Len(group) :
            group[i].entry = entry /\ \A j \in 1 .. (i - 1) : group[j].entry # entry
    ELSE 0

\* Variant of store_locked that gives a pair found in the group the new expiration.
store_locked_overwrite(groups, key, entry, expiration, initial_length) ==
    LET group == Group(groups, key)
        i     == Find(group, entry)
    IN  IF groups[key] # None /\ i # 0
        THEN [key_groups |-> [groups EXCEPT ![key] =
                                 Some([group EXCEPT ![i] =
                                          [@ EXCEPT !.expiration = expiration,
                                                    !.republish_ready = FALSE]])],
              result |-> "Success"]
        ELSE IF initial_length > MAX_STORAGE
        THEN [key_groups |-> groups, result |-> "StorageFull"]
        ELSE [key_groups |-> [groups EXCEPT ![key] =
                                 Some(Append(group, ExtendedEntry(entry, expiration)))],
              result |-> "Success"]

\* Storage::store under the write lock of key_groups: a pair found in the group of
\* the key takes the later expiration; a new pair is refused if the length read
\* before the lock exceeds max_storage, else pushed onto the group, which is
\* created if the key has none.
store_locked(groups, key, entry, expiration, initial_length) ==
    LET group == Group(groups, key)
        i     == Find(group, entry)
    IN  IF groups[key] # None /\ i # 0
        THEN [key_groups |-> [groups EXCEPT ![key] =
                                 Some([group EXCEPT ![i] =
                                          [@ EXCEPT !.expiration = Max(@, expiration),
                                                    !.republish_ready = FALSE]])],
              result |-> "Success"]
        ELSE IF initial_length > MAX_STORAGE
        THEN [key_groups |-> groups, result |-> "StorageFull"]
        ELSE [key_groups |-> [groups EXCEPT ![key] =
                                 Some(Append(group, ExtendedEntry(entry, expiration)))],
              result |-> "Success"]

\* Storage::clear_expired_entries: retain the pairs with now < expiration, then
\* remove the groups that have run out of pairs.
clear_expired_entries(groups, time) ==
    [key \in StorageKeys |->
        IF groups[key] = None
        THEN None
        ELSE LET retained == SelectSeq(groups[key][1], LAMBDA e : time < e.expiration)
             IN  IF retained = <<>> THEN None ELSE Some(retained)]

\* Variant of retrieve_group that leaves out the first entry of the group.
retrieve_group_rest(groups, key) ==
    IF groups[key] # None
    THEN Some([i \in 1 .. (Len(groups[key][1]) - 1) |-> groups[key][1][i + 1].entry])
    ELSE None

\* Storage::retrieve under the read lock: the entries of the group of the key.
retrieve_group(groups, key) ==
    IF groups[key] # None
    THEN Some([i \in 1 .. Len(groups[key][1]) |-> groups[key][1][i].entry])
    ELSE None

-----------------------------------------------------------------------------
(* SubotaiHash::random_at_distance (hash/mod.rs), which refresh_bucket calls *)
(* with the local id and a bucket index to pick the target of its probe.     *)

\* HASH_SIZE_BYTES: the length of raw.
HASH_SIZE_BYTES == HASH_SIZE \div BYTE_BITS

\* random_at_distance(reference, distance), `random` being the outcome of
\* SubotaiHash::random(): the elements of raw are walked from the most
\* significant one, counted from 0, and each one whose count is below `distance`
\* is overwritten with the reference's; the others keep the random value.
random_at_distance(reference, distance, random) ==
    LET copied == Min(distance, HASH_SIZE_BYTES)
        low    == 2^((HASH_SIZE_BYTES - copied) * BYTE_BITS)
    IN  (reference \div low) * low + (random % low)

-----------------------------------------------------------------------------
(* The background loops of a node and the drop of its handle.               *)

\* conflict_resolution_loop: conflicts that were pinged this many times are dropped
\* (`times_pinged < 5`).
PING_LIMIT == 5

\* Variables that only the RPC handlers write.
handlerVars == <<conflicts_held, pc, todo, info, defensive, update_result,
                 off_grid, is_new, introduced, received>>

\* The RPCs that the loops are explored with.
LoopRpcs == {rpc \in Rpcs : rpc.kind \in {"Ping", "PingResponse"}}

\* impl Drop for Node: the state is written ShuttingDown and the change is
\* broadcast.  A call of Node::locate borrows the handle until it returns; the
\* threads of the node (bootstrap, the loops) go on with what they are doing.
Drop ==
    /\ ~dropped
    /\ wave.op = "locate" => wave.pc = "idle"
    /\ room(rx, 1)
    /\ dropped' = TRUE
    /\ state' = "ShuttingDown"
    /\ rx' = broadcast(rx, <<Update_StateChange("ShuttingDown")>>)
    /\ UNCHANGED <<storageVars, publish, outbound, steady, wave, tableVars, conflicts,
                   handlerVars, loop, conflicts_empty, refreshes, last_probe,
                   maintenance>>

\* reception_loop, a pass whose recv_from returned an RPC: the loop goes on only
\* if the state is not ShuttingDown, and spawns process_incoming_rpc.
Receive(t, rpc) ==
    /\ loop["reception"] = "wait"
    /\ received < MaxLoopRpcs
    /\ ProcessIncomingRpc(t, rpc)

\* reception_loop, a pass whose recv_from timed out or returned no RPC: break if
\* the state is ShuttingDown, else broadcast a Tick.
ReceptionWake ==
    /\ loop["reception"] = "wait"
    /\ state # "ShuttingDown" => room(rx, 1)
    /\ loop' = [loop EXCEPT !["reception"] =
                   IF state = "ShuttingDown" THEN "exited" ELSE "wait"]
    /\ rx' = IF state = "ShuttingDown" THEN rx ELSE broadcast(rx, <<Update_Tick>>)
    /\ UNCHANGED <<storageVars, publish, outbound, steady, wave, tableVars, state, conflicts,
                   handlerVars, dropped, conflicts_empty, refreshes, last_probe,
                   maintenance>>

\* prune_bucket: the nodes of bucket `index` that answer no ping are removed from
\* the table.
prune_bucket(bk, index, unresponsive) ==
    [bk EXCEPT ![index] = SelectSeq(@, LAMBDA e : e \notin unresponsive)]

\* maintenance_loop: let hour = time::Duration::hours(1), in ticks of the clock.
hour == 1

\* Table::oldest_bucket: the first bucket that was never probed; when all were
\* probed, the one probed longest ago, the last of them if there are several
\* (max_by_key).
oldest_bucket(probes, time) ==
    IF \E i \in Indices : probes[i] = None
    THEN [index |-> CHOOSE i \in Indices :
                       probes[i] = None /\ \A j \in 0 .. (i - 1) : probes[j] # None,
          time  |-> None]
    ELSE LET index == CHOOSE i \in Indices : \A j \in Indices :
                          \/ time - probes[j][1] < time - probes[i][1]
                          \/ time - probes[j][1] = time - probes[i][1] /\ j <= i
         IN  [index |-> index, time |-> probes[index]]

\* Table::mark_bucket_as_probed(id)
mark_bucket_as_probed(probes, parent, id, time) ==
    [probes EXCEPT ![bucket_for_node(parent, id)] = Some(time)]

\* Storage::mark_all_as_ready
mark_all_as_ready(groups) ==
    [key \in StorageKeys |->
        IF groups[key] = None
        THEN None
        ELSE Some([i \in 1 .. Len(groups[key][1]) |->
                      [groups[key][1][i] EXCEPT !.republish_ready = TRUE]])]

\* The ready pairs of the groups of the keys from `key` on, each with its key.
RECURSIVE ReadyFrom(_, _)
ReadyFrom(groups, key) ==
    IF key > MaxKey
    THEN <<>>
    ELSE LET ready == SelectSeq(Group(groups, key), LAMBDA e : e.republish_ready)
         IN  [i \in 1 .. Len(ready) |->
                 [key |-> key, entry |-> ready[i].entry, expiration |-> ready[i].expiration]]
             \o ReadyFrom(groups, key + 1)

\* Variant of get_all_ready_entries that returns every pair, ready or not.
get_all_entries(groups, time) ==
    LET cleared == clear_expired_entries(groups, time)
    IN  [key_groups |-> cleared, entries |-> ReadyFrom(mark_all_as_ready(cleared), 0)]

\* Storage::get_all_ready_entries: clear_expired_entries, then the pairs whose
\* republish_ready is set, each with its key and expiration.
get_all_ready_entries(groups, time) ==
    LET cleared == clear_expired_entries(groups, time)
    IN  [key_groups |-> cleared, entries |-> ReadyFrom(cleared, 0)]

\* The probes of the calls resources.store(key, ..) for the entries, one after
\* another: a node that is not OffGrid marks the bucket of each key as probed.
RECURSIVE store_probes(_, _, _, _, _)
store_probes(probes, parent, st, entries, time) ==
    IF entries = <<>> \/ st = "OffGrid"
    THEN probes
    ELSE store_probes(mark_bucket_as_probed(probes, parent, Head(entries).key, time),
                      parent, st, Tail(entries), time)

\* maintenance_loop, one pass from the sleep to the test of last_republish: break
\* if the state is ShuttingDown; refresh the oldest bucket if it was never probed
\* or was probed more than an hour ago; clear the expired entries.
\* refresh_bucket prunes the bucket of the nodes that do not answer and probes
\* random_at_distance(id, index), and the probe begins by marking the bucket of
\* its target.  The wave of the probe writes neither the state nor the queue of
\* conflicts, and reaches the table through the handlers of the responses.
MaintenanceWake ==
    /\ loop["maintenance"] = "wait"
    /\ IF state = "ShuttingDown"
       THEN /\ loop' = [loop EXCEPT !["maintenance"] = "exited"]
            /\ UNCHANGED <<buckets, refreshes, last_probe, maintenance, key_groups>>
       ELSE LET oldest == oldest_bucket(last_probe, now)
            IN  /\ IF oldest.time = None \/ now - oldest.time[1] > hour
                   THEN /\ refreshes < MaxRefreshes
                        /\ refreshes' = refreshes + 1
                        /\ \E unresponsive \in SUBSET SeqSet(buckets[oldest.index]) :
                              buckets' = prune_bucket(buckets, oldest.index, unresponsive)
                        /\ \E random \in IDs :
                              last_probe' = mark_bucket_as_probed(
                                  last_probe, parent_id,
                                  random_at_distance(parent_id, oldest.index, random), now)
                        /\ maintenance' = [maintenance EXCEPT !.refreshed = Some(oldest.index),
                                                              !.republished = None]
                   ELSE /\ maintenance' = [maintenance EXCEPT !.refreshed = None,
                                                              !.republished = None]
                        /\ UNCHANGED <<buckets, refreshes, last_probe>>
                /\ key_groups' = clear_expired_entries(key_groups, now)
                /\ loop' = [loop EXCEPT !["maintenance"] =
                               IF now - maintenance.last_republish > hour
                               THEN "republish" ELSE "wait"]
    /\ UNCHANGED <<now, op, returned, calls, apiVars, parent_id, pool, last, state, conflicts,
                   handlerVars, dropped, conflicts_empty>>

\* maintenance_loop, an hour after last_republish: every entry that
\* get_all_ready_entries returns is handed to resources.store, whose result is
\* not looked at.
Republish ==
    /\ loop["maintenance"] = "republish"
    /\ LET got == get_all_ready_entries(key_groups, now)
       IN  /\ key_groups' = got.key_groups
           /\ maintenance' = [maintenance EXCEPT !.republished = Some(got.entries)]
           /\ last_probe' = store_probes(last_probe, parent_id, state, got.entries, now)
    /\ loop' = [loop EXCEPT !["maintenance"] = "mark"]
    /\ UNCHANGED <<now, op, returned, calls, apiVars, tableVars, state, conflicts, handlerVars,
                   dropped, conflicts_empty, refreshes>>

\* maintenance_loop, after the republication: last_republish = SteadyTime::now()
\* and storage.mark_all_as_ready().
MarkAllAsReady ==
    /\ loop["maintenance"] = "mark"
    /\ maintenance' = [maintenance EXCEPT !.last_republish = now]
    /\ key_groups' = mark_all_as_ready(key_groups)
    /\ loop' = [loop EXCEPT !["maintenance"] = "wait"]
    /\ UNCHANGED <<now, op, returned, calls, apiVars, tableVars, state, conflicts, handlerVars,
                   dropped, conflicts_empty, refreshes, last_probe>>

\* conflict_resolution_loop, the lock scope: retain the conflicts pinged fewer than
\* PING_LIMIT times, ping the evicted node of each and count the ping.  The loop
\* never gets the mutex that a handler holds for ever.
LockScope ==
    /\ loop["conflict_resolution"] = "lock"
    /\ IF conflicts_held
       THEN /\ loop' = [loop EXCEPT !["conflict_resolution"] = "blocked"]
            /\ UNCHANGED <<conflicts, conflicts_empty>>
       ELSE LET kept == SelectSeq(conflicts, LAMBDA c : c.times_pinged < PING_LIMIT)
            IN  /\ conflicts' = [k \in 1 .. Len(kept) |->
                                    [kept[k] EXCEPT !.times_pinged = @ + 1]]
                /\ conflicts_empty' = (kept = <<>>)
                /\ loop' = [loop EXCEPT !["conflict_resolution"] = "sleep"]
    /\ UNCHANGED <<storageVars, apiVars, tableVars, state, handlerVars, dropped, refreshes,
                   last_probe, maintenance>>

\* conflict_resolution_loop after the sleep, under the write lock of the state:
\* break if ShuttingDown; leave Defensive if the queue was found empty, and
\* broadcast the new state.
ResolutionWake ==
    /\ loop["conflict_resolution"] = "sleep"
    /\ IF state = "ShuttingDown"
       THEN /\ loop' = [loop EXCEPT !["conflict_resolution"] = "exited"]
            /\ UNCHANGED <<state, rx>>
       ELSE /\ loop' = [loop EXCEPT !["conflict_resolution"] = "lock"]
            /\ IF state = "Defensive" /\ conflicts_empty
               THEN /\ room(rx, 1)
                    /\ state' = IF table_len(buckets) > K_FACTOR THEN "OnGrid" ELSE "OffGrid"
                    /\ rx' = broadcast(rx, <<Update_StateChange(state')>>)
               ELSE UNCHANGED <<state, rx>>
    /\ UNCHANGED <<storageVars, publish, outbound, steady, wave, tableVars, conflicts,
                   handlerVars, dropped, conflicts_empty, refreshes, last_probe,
                   maintenance>>

\* The peers a node may know when the exploration of its loops begins: none, or
\* the two that fill its farthest bucket with the ids nearest to its own.
Acquainted ==
    LET far == {id \in Peers : bucket_for_node(LocalId, id) = HASH_SIZE - 1}
    IN  {<<>>} \cup {known \in far \X far :
                        /\ cmp_less(bitxor(LocalId, known[1]), bitxor(LocalId, known[2]))
                        /\ \A id \in far \ {known[1], known[2]} :
                              cmp_less(bitxor(LocalId, known[2]), bitxor(LocalId, id))}

\* The table of a node that was pinged by the peers of `known`, one after another.
RECURSIVE TableOf(_)
TableOf(known) ==
    IF known = <<>>
    THEN update_node(LocalId, EmptyBuckets, LocalId).buckets
    ELSE update_node(LocalId, TableOf(SubSeq(known, 1, Len(known) - 1)),
                     known[Len(known)]).buckets

\* A node after construction, or after the updates for two peers: the loops at the
\* head of a pass, no handler running, and the state that update_table left.
LoopsInit ==
    \E known \in Acquainted :
        /\ parent_id = LocalId
        /\ buckets = TableOf(known)
        /\ pool = {}
        /\ last = NoCall
        /\ LoopsSpawned
        /\ StorageNew
        /\ NoPublish
        /\ NoWave
        /\ state = IF leaves_off_grid(TRUE, table_len(buckets)) THEN "OnGrid" ELSE "OffGrid"
        /\ conflicts = <<>>
        /\ conflicts_held = FALSE
        /\ pc = [t \in Threads |-> "idle"]
        /\ todo = [t \in Threads |-> <<>>]
        /\ info = [t \in Threads |-> None]
        /\ defensive = [t \in Threads |-> FALSE]
        /\ update_result = [t \in Threads |-> None]
        /\ off_grid = [t \in Threads |-> FALSE]
        /\ is_new = [t \in Threads |-> FALSE]
        /\ introduced = SeqSet(known)
        /\ received = 0

LoopsNext ==
    \/ \E t \in Threads, rpc \in LoopRpcs : Receive(t, rpc)
    \/ \E t \in Threads : ReadDefensive(t)
    \/ \E t \in Threads : TableUpdateNode(t)
    \/ \E t \in Threads : TableRevertConflict(t)
    \/ \E t \in Threads : PushConflict(t)
    \/ \E t \in Threads : ReadOffGrid(t)
    \/ \E t \in Threads : GoOnGrid(t)
    \/ ReceptionWake
    \/ MaintenanceWake
    \/ LockScope
    \/ ResolutionWake
    \/ Drop

SpecLoops == LoopsInit /\ [][LoopsNext]_vars

\* C13 as stated: once the handle is dropped the state is ShuttingDown, so that
\* the reception loop spawns no further handler and goes through no further pass,
\* the conflict-resolution loop exits when it wakes from its sleep, and the
\* maintenance loop is not found waiting for a pass that lets it go on.
C13_Original ==
    [][dropped =>
          /\ state' = "ShuttingDown"
          /\ received' = received
          /\ loop["conflict_resolution"] = "sleep" /\ loop'["conflict_resolution"] # "sleep"
                => loop'["conflict_resolution"] = "exited"]_vars

-----------------------------------------------------------------------------
(* The calls of the storage, each in the steps that its locks make of it.    *)

\* Everything outside the storage.
outsideStorage == <<tableVars, state, conflicts, handlerVars, loopVars, apiVars>>

\* Storage::store up to the write lock: a big blob is refused; else the
\* expiration is clamped against the clock and the length of the storage is read.
StoreCall(t, key, entry, expiration) ==
    /\ op[t] = None
    /\ calls < MaxCalls
    /\ calls' = calls + 1
    /\ IF is_big_blob(entry)
       THEN /\ returned' = Some([kind |-> "store", key |-> key, entry |-> entry,
                                 requested |-> expiration, time |-> now,
                                 result |-> "BlobTooBig", inserted |-> FALSE])
            /\ UNCHANGED op
       ELSE /\ op' = [op EXCEPT ![t] =
                         Some([kind |-> "store", key |-> key, entry |-> entry,
                               requested |-> expiration, time |-> now,
                               expiration |-> clamped_expiration(expiration, now),
                               initial_length |-> storage_len(key_groups)])]
            /\ UNCHANGED returned
    /\ UNCHANGED <<key_groups, now, outsideStorage>>

\* Storage::store from the write lock to its return.
StoreLocked(t) ==
    /\ op[t] # None
    /\ op[t][1].kind = "store"
    /\ LET call   == op[t][1]
           stored == store_locked(key_groups, call.key, call.entry, call.expiration,
                                  call.initial_length)
       IN  /\ key_groups' = stored.key_groups
           /\ returned' = Some([kind |-> "store", key |-> call.key, entry |-> call.entry,
                                requested |-> call.requested, time |-> call.time,
                                result |-> stored.result,
                                inserted |-> /\ stored.result = "Success"
                                             /\ Find(Group(key_groups, call.key),
                                                     call.entry) = 0])
    /\ op' = [op EXCEPT ![t] = None]
    /\ UNCHANGED <<now, calls, outsideStorage>>

\* Storage::retrieve, its call of clear_expired_entries.
RetrieveClear(t, key) ==
    /\ op[t] = None
    /\ calls < MaxCalls
    /\ calls' = calls + 1
    /\ key_groups' = clear_expired_entries(key_groups, now)
    /\ op' = [op EXCEPT ![t] = Some([kind |-> "retrieve", key |-> key, time |-> now,
                                     after |-> returned])]
    /\ UNCHANGED <<now, returned, outsideStorage>>

\* Storage::retrieve from the read lock to its return.
RetrieveRead(t) ==
    /\ op[t] # None
    /\ op[t][1].kind = "retrieve"
    /\ returned' = Some([kind |-> "retrieve", key |-> op[t][1].key, time |-> op[t][1].time,
                         after |-> op[t][1].after,
                         result |-> retrieve_group(key_groups, op[t][1].key)])
    /\ op' = [op EXCEPT ![t] = None]
    /\ UNCHANGED <<key_groups, now, calls, outsideStorage>>

\* The clock advances.
Tick ==
    /\ now < MaxTime
    /\ now' = now + 1
    /\ UNCHANGED <<key_groups, op, returned, calls, outsideStorage>>

StorageNext ==
    \/ \E t \in Threads, key \in StorageKeys, entry \in StorageEntries,
          expiration \in Expirations : StoreCall(t, key, entry, expiration)
    \/ \E t \in Threads : StoreLocked(t)
    \/ \E t \in Threads, key \in StorageKeys : RetrieveClear(t, key)
    \/ \E t \in Threads : RetrieveRead(t)
    \/ Tick

SpecStorage == Init /\ [][StorageNext]_vars

\* The pairs held under a key.
Pairs(key) == {Group(key_groups, key)[i] : i \in 1 .. Len(Group(key_groups, key))}

\* A retrieve of `key` returns, having begun when the last call returned was a store
\* under the same key.
RetrieveAfterStore(key) ==
    /\ returned' # returned
    /\ returned'[1].kind = "retrieve"
    /\ returned'[1].key = key
    /\ returned'[1].after # None
    /\ returned'[1].after[1].kind = "store"
    /\ returned'[1].after[1].key = key

\* C14 as stated: store(k, v, t) followed by retrieve(k) returns a list that
\* contains v.
C14_Original ==
    [][\A key \in StorageKeys :
          RetrieveAfterStore(key) =>
             /\ returned'[1].result # None
             /\ Contains(returned'[1].result[1], returned'[1].after[1].entry)]_vars

\* C14, amended: store(k, v, t) that returns Success, followed by a retrieve(k)
\* that answers before the time min(t, time of the store + base expiration time),
\* returns a list that contains v.
C14_StoreThenRetrieve ==
    [][\A key \in StorageKeys :
          RetrieveAfterStore(key) =>
             LET store == returned'[1].after[1]
             IN  store.result = "Success"
                 /\ now < clamped_expiration(store.requested, store.time) =>
                    /\ returned'[1].result # None
                    /\ Contains(returned'[1].result[1], store.entry)]_vars

C14_Witness ==
    /\ returned # None
    /\ returned[1].kind = "retrieve"
    /\ returned[1].after # None
    /\ returned[1].after[1].kind = "store"
    /\ returned[1].after[1].key = returned[1].key
    /\ returned[1].after[1].result = "Success"
    /\ returned[1].after[1].requested > returned[1].time + BASE_EXPIRATION_TIME_HRS
    /\ returned[1].result # None
    /\ Contains(returned[1].result[1], returned[1].after[1].entry)

\* A store of `entry` under `key` returns, the last call returned before it being
\* a store of the same entry under the same key.
SecondStore(key, entry) ==
    /\ \/ calls' # calls /\ op' = op
       \/ \E t \in Threads : op[t] # None /\ op[t][1].kind = "store" /\ op'[t] = None
    /\ returned # None
    /\ returned[1].kind = "store"
    /\ returned[1].key = key /\ returned[1].entry = entry
    /\ returned'[1].key = key /\ returned'[1].entry = entry

\* The expirations of the pairs of `entry` in a group, one element per pair.
ExpirationsOf(group, entry) ==
    [i \in {j \in 1 .. Len(group) : group[j].entry = entry} |-> group[i].expiration]

\* The group holds exactly one pair of the entry, with that expiration.
OnePair(group, entry, expiration) ==
    /\ Cardinality(DOMAIN ExpirationsOf(group, entry)) = 1
    /\ \A i \in DOMAIN ExpirationsOf(group, entry) : group[i].expiration = expiration

\* C15 as stated: store(k, v, t1) then store(k, v, t2) leave the group of k with
\* exactly one pair for v, whose expiration is min(max(t1, t2), now + base
\* expiration time).
C15_Original ==
    [][\A key \in StorageKeys, entry \in StorageEntries :
          SecondStore(key, entry) =>
             OnePair(Group(key_groups', key), entry,
                     Min(Max(returned[1].requested, returned'[1].requested),
                         now + BASE_EXPIRATION_TIME_HRS))]_vars

\* C15, amended: two successive stores of v under k, the first of which returned
\* Success for a value the group did not hold, and whose pair is still held when
\* the second is made, leave the group of k with exactly one pair for v, whose
\* expiration is max(min(t1, now1 + base), min(t2, now2 + base)), now1 and now2
\* being the times of the two stores.
C15_SecondStoreKeepsLatest ==
    [][\A key \in StorageKeys, entry \in StorageEntries :
          SecondStore(key, entry) /\ returned[1].inserted
             /\ Find(Group(key_groups, key), entry) # 0 =>
                /\ returned'[1].result = "Success"
                /\ OnePair(Group(key_groups', key), entry,
                           Max(clamped_expiration(returned[1].requested, returned[1].time),
                               clamped_expiration(returned'[1].requested,
                                                  returned'[1].time)))]_vars

\* A second store, made at a later tick than the first and asking for an earlier
\* expiration, has returned.
C15_Witness ==
    /\ returned # None
    /\ returned[1].kind = "store"
    /\ returned[1].result = "Success"
    /\ ~returned[1].inserted
    /\ returned[1].time > 0
    /\ Find(Group(key_groups, returned[1].key), returned[1].entry) # 0
    /\ Group(key_groups, returned[1].key)[Find(Group(key_groups, returned[1].key),
                                               returned[1].entry)].expiration
          > clamped_expiration(returned[1].requested, returned[1].time)

\* C16: every pair held has an expiration no later than the time of the store
\* that set it plus the base expiration time: the store that returns has written
\* no expiration later than the time it read plus the base, and no pair held has
\* an expiration later than the present time plus the base.
C16_ExpirationClamped ==
    /\ [](\A key \in StorageKeys : \A pair \in Pairs(key) :
             pair.expiration <= now + BASE_EXPIRATION_TIME_HRS)
    /\ [][\A t \in Threads :
             op[t] # None /\ op[t][1].kind = "store" /\ op'[t] = None =>
                \A key \in StorageKeys :
                   \A i \in 1 .. Len(Group(key_groups', key)) :
                      LET pair == Group(key_groups', key)[i]
                      IN  \/ /\ i <= Len(Group(key_groups, key))
                             /\ Group(key_groups, key)[i] = pair
                          \/ pair.expiration
                                <= op[t][1].time + BASE_EXPIRATION_TIME_HRS]_vars

\* A store that asked for a time beyond the clamp has set the expiration of a pair
\* held before (a re-store) to the clamp.
C16_Witness ==
    /\ returned # None
    /\ returned[1].kind = "store"
    /\ returned[1].result = "Success"
    /\ ~returned[1].inserted
    /\ returned[1].requested > returned[1].time + BASE_EXPIRATION_TIME_HRS
    /\ \E pair \in Pairs(returned[1].key) :
          /\ pair.entry = returned[1].entry
          /\ pair.expiration = returned[1].time + BASE_EXPIRATION_TIME_HRS
          /\ returned[1].time > 0

\* A call of store returns.
StoreReturns ==
    \/ calls' # calls /\ op' = op
    \/ \E t \in Threads : op[t] # None /\ op[t][1].kind = "store" /\ op'[t] = None

\* A blob of more than MAX_STORAGE_BLOB_SIZE bytes.
TooBig(entry) == entry.kind = "Blob" /\ Len(entry.bytes) > MAX_STORAGE_BLOB_SIZE

\* C18: a store of a blob larger than MAX_STORAGE_BLOB_SIZE returns BlobTooBig and
\* leaves the storage as it was, and no blob held is larger than
\* MAX_STORAGE_BLOB_SIZE.
C18_BlobTooBig ==
    /\ [](\A key \in StorageKeys : \A pair \in Pairs(key) : ~TooBig(pair.entry))
    /\ [][StoreReturns /\ TooBig(returned'[1].entry) =>
             /\ returned'[1].result = "BlobTooBig"
             /\ key_groups' = key_groups]_vars

\* A store of a blob that is too big has returned, and the storage holds a blob.
C18_Witness ==
    /\ returned # None
    /\ returned[1].kind = "store"
    /\ TooBig(returned[1].entry)
    /\ returned[1].result = "BlobTooBig"
    /\ \E key \in StorageKeys : \E pair \in Pairs(key) : pair.entry.kind = "Blob"

\* C19 as stated: the retrieve that returns, having purged at the time it read,
\* returns no value whose expiration is earlier than that time, and returns none
\* when the key has no pair that expires later than that time.
C19_Original ==
    [][\A t \in Threads :
          op[t] # None /\ op[t][1].kind = "retrieve" /\ op'[t] = None =>
             LET call  == op[t][1]
                 group == Group(key_groups, call.key)
             IN  /\ returned'[1].result # None =>
                       \A i \in 1 .. Len(group) :
                          Contains(returned'[1].result[1], group[i].entry) =>
                             group[i].expiration >= call.time
                 /\ (\A i \in 1 .. Len(group) : group[i].expiration <= call.time) =>
                       returned'[1].result = None]_vars

\* C17 as stated: the storage never holds more than MAX_STORAGE entries.
C17_Original == storage_len(key_groups) <= MAX_STORAGE

-----------------------------------------------------------------------------
(* Resources::store and Resources::mass_store: an entry is published to the  *)
(* nodes nearest to its key.  The network decides which probes are answered. *)

\* Variant of off_grid_error that refuses the Defensive node instead.
off_grid_error_defensive(st) == st = "Defensive"

\* store, mass_store: `if let node::State::OffGrid = *self.state.read().unwrap()`
off_grid_error(st) == st = "OffGrid"

\* probe: the seeds of the wave, the ALPHA nearest of the K_FACTOR nodes of the
\* table nearest to the target, the node itself left out.
seeds(parent, bk, target) ==
    Take(Take(SelectSeq(closest_nodes_to(parent, bk, target), LAMBDA e : e # parent),
              K_FACTOR), ALPHA)

\* store, mass_store: an OffGrid node returns OffGridError; any other goes on to
\* probe for the key.
PublishCall(key, mass) ==
    /\ publish.pc = "idle"
    /\ publish.calls < MaxPublishes
    /\ publish' = IF off_grid_error(state)
                  THEN [publish EXCEPT !.key = key, !.mass = mass, !.calls = @ + 1,
                                       !.candidates = {},
                                       !.result = Some("OffGridError")]
                  ELSE [publish EXCEPT !.key = key, !.mass = mass, !.calls = @ + 1,
                                       !.candidates = {},
                                       !.result = None, !.pc = "probe"]
    /\ UNCHANGED <<outbound, tableVars, state, conflicts, handlerVars, loopVars,
                   storageVars, waveVars>>

\* probe and its wave: the bucket of the key is marked as probed; without seeds
\* UnresponsiveNetwork at once; else the Probe RPC goes to the seeds, and the wave
\* ends with UnresponsiveNetwork or with one to K_FACTOR storage candidates, as
\* the network decides.
PublishProbe ==
    /\ publish.pc = "probe"
    /\ last_probe' = mark_bucket_as_probed(last_probe, parent_id, publish.key, now)
    /\ LET nodes == seeds(parent_id, buckets, publish.key)
       IN  IF nodes = <<>>
           THEN /\ publish' = [publish EXCEPT !.pc = "idle",
                                              !.result = Some("UnresponsiveNetwork")]
                /\ UNCHANGED outbound
           ELSE /\ outbound' = outbound \cup {[kind |-> "Probe", to |-> n] : n \in SeqSet(nodes)}
                /\ \/ publish' = [publish EXCEPT !.pc = "idle",
                                                 !.result = Some("UnresponsiveNetwork")]
                   \/ \E candidates \in SUBSET (Peers \cup {parent_id}) :
                         /\ Cardinality(candidates) \in 1 .. K_FACTOR
                         /\ publish' = [publish EXCEPT !.pc = "send",
                                                       !.candidates = candidates]
    /\ UNCHANGED <<tableVars, state, conflicts, handlerVars, dropped, loop, conflicts_empty,
                   refreshes, maintenance, storageVars, waveVars>>

\* C20: a store or mass_store called while the node is OffGrid returns
\* OffGridError in that step, sends no RPC and leaves the routing table and the
\* storage as they were.
C20_OffGridRefused ==
    [][publish'.calls # publish.calls /\ state = "OffGrid" =>
          /\ publish'.pc = "idle"
          /\ publish'.result = Some("OffGridError")
          /\ outbound' = outbound
          /\ buckets' = buckets
          /\ key_groups' = key_groups]_vars

C20_Witness ==
    /\ publish.result = Some("OffGridError")
    /\ state = "OffGrid"
    /\ table_len(buckets) > 1
    /\ outbound = {}


-----------------------------------------------------------------------------
(* Updates for a peer the bucket already holds.                              *)

\* C27 as stated: an update_node for an id that its bucket holds reports
\* UpdatedNode, leaves the id at the back of the bucket behind the other entries
\* in their former order, and leaves the bucket with as many entries as before;
\* in particular it causes no conflict, full bucket or not.
C27_Original ==
    last.op = "update_node" /\ Contains(last.pre, last.node) =>
        /\ last.result = UpdatedNode
        /\ buckets[last.index] = Retain(last.pre, last.node) \o <<last.node>>
        /\ Len(buckets[last.index]) = Len(last.pre)


-----------------------------------------------------------------------------
(* The calls of SubotaiHash::random_at_distance, for every reference, every  *)
(* distance and every outcome of the random source.                          *)

\* A call random_at_distance(reference, distance) for which the random source
\* yields `random`.
RandomAtDistance(reference, distance, random) ==
    /\ last' = [op |-> "random_at_distance", reference |-> reference,
                distance |-> distance, random |-> random,
                result |-> random_at_distance(reference, distance, random)]
    /\ UNCHANGED <<parent_id, buckets, pool, nodeVars>>

HashNext ==
    \E reference \in IDs, distance \in 0 .. HASH_SIZE, random \in IDs :
        RandomAtDistance(reference, distance, random)

SpecHash == Init /\ [][HashNext]_vars

\* C26 as stated: the id returned by random_at_distance(reference, d) has the
\* reference's bit at every position d and above, so that the height of
\* reference XOR result, if it has one, is at most d.
C26_Original ==
    last.op = "random_at_distance" =>
        /\ \A i \in Indices :
              i >= last.distance => Bit(last.result, i) = Bit(last.reference, i)
        /\ LET h == height(bitxor(last.reference, last.result))
           IN  h # None => h[1] <= last.distance

-----------------------------------------------------------------------------
(* The Receptions iterator (node/receptions.rs) and the bus that feeds it.   *)
(* receptions.rs and node/mod.rs name the bus `updates` and its items        *)
(* `Update`; resources.rs names them `reception_updates` and                 *)
(* `ReceptionUpdate`: one bus, which carries the Ticks of the reception      *)
(* loop, the state changes and the RPCs that were processed.  The handlers   *)
(* of the specifications above run while no iterator exists, so their        *)
(* broadcasts reach no receiver.                                             *)

\* configuration.network_timeout_s (5 by default), in ticks of the steady clock.
NETWORK_TIMEOUT_S == 1

\* The steady clock is explored up to this reading.
MaxSteady == 3

\* RPCs that the reception loop receives in one behaviour, when the node is
\* explored together with an iterator.
MaxHeard == 2

\* update_table(info), from its first statement to its last with no other thread
\* in between: `t` holds the table, the state, the conflicts and the state changes
\* that set_state broadcast.
update_table(parent, t, node) ==
    LET was_defensive == t.state = "Defensive"
        upd      == update_node(parent, t.buckets, node)
        conflict == upd.result.kind = "CausedConflict"
        bk       == IF conflict /\ was_defensive
                    THEN revert_conflict(parent, upd.buckets, upd.result.conflict)
                    ELSE upd.buckets
        pushed   == IF conflict /\ ~was_defensive
                    THEN push_conflict(t.conflicts, t.state, upd.result.conflict)
                    ELSE [conflicts |-> t.conflicts, state |-> t.state]
        entered  == conflict /\ ~was_defensive /\ Len(pushed.conflicts) = MAX_CONFLICTS
        on_grid  == leaves_off_grid(pushed.state = "OffGrid", table_len(bk))
    IN  [buckets   |-> bk,
         state     |-> IF on_grid THEN "OnGrid" ELSE pushed.state,
         conflicts |-> pushed.conflicts,
         changes   |-> t.changes
                       \o (IF entered THEN <<Update_StateChange("Defensive")>> ELSE <<>>)
                       \o (IF on_grid THEN <<Update_StateChange("OnGrid")>> ELSE <<>>)]

\* update_table for each descriptor of `nodes` in turn.
RECURSIVE update_table_all(_, _, _)
update_table_all(parent, t, nodes) ==
    IF nodes = <<>> THEN t
    ELSE update_table_all(parent, update_table(parent, t, Head(nodes)), Tail(nodes))

\* reception_loop, a pass whose recv_from returned an RPC while the state is not
\* ShuttingDown, with the process_incoming_rpc it spawns run to its end: the
\* handler of the kind, update_table for the sender, the broadcast of the RPC;
\* and the Tick that ends the pass.
Deliver(rpc) ==
    /\ loop["reception"] = "wait"
    /\ state # "ShuttingDown"
    /\ \A t \in Threads : pc[t] = "idle"
    /\ received < MaxHeard
    /\ LET t == update_table_all(parent_id,
                                 [buckets |-> buckets, state |-> state,
                                  conflicts |-> conflicts, changes |-> <<>>],
                                 update_targets(rpc))
           us == t.changes \o <<Update_RpcReceived(rpc), Update_Tick>>
       IN  /\ room(rx, Len(us))
           /\ buckets' = t.buckets
           /\ state' = t.state
           /\ conflicts' = t.conflicts
           /\ rx' = broadcast(rx, us)
    /\ received' = received + 1
    /\ introduced' = introduced \cup SeqSet(update_targets(rpc))
    /\ UNCHANGED <<parent_id, pool, last, conflicts_held, pc, todo, info, defensive,
                   update_result, off_grid, is_new, loopVars, storageVars, publish,
                   outbound, steady, wave>>

\* time::SteadyTime::now() reads a later time.
SteadyTick ==
    /\ steady < MaxSteady
    /\ steady' = steady + 1
    /\ UNCHANGED <<tableVars, state, conflicts, handlerVars, loopVars, storageVars,
                   publish, outbound, rx, wave>>

\* Whether the RPC passes the kind filter and the sender filter of the iterator.
passes(r, rpc) ==
    /\ r.kind_filter # None => r.kind_filter[1] = rpc.kind
    /\ r.sender_filter # None => Contains(r.sender_filter[1], rpc.sender)

\* Receptions::new, then during, of_kind and from_senders as the caller chains
\* them; `filter` and `take` are the adapters .filter(successfully_stored(key))
\* and .take(n) that the caller wraps the iterator in.
receptions(now_, lifespan, kind, senders, key, n) ==
    [pc            |-> "head",
     timeout       |-> IF lifespan = None THEN None ELSE Some(now_ + lifespan[1]),
     kind_filter   |-> kind,
     sender_filter |-> senders,
     shutdown      |-> FALSE,
     queue         |-> <<>>,
     filter        |-> key,
     take          |-> n,
     yielded       |-> <<>>,
     heard         |-> <<>>]

\* Receptions::next at the head of its loop: the iterator ends when the time is
\* past the timeout or when it saw the shutdown; Take ends it when its count is
\* used up, without a call of next.
next_head(r, now_) ==
    IF \/ r.take = Some(0)
       \/ r.timeout # None /\ now_ > r.timeout[1]
       \/ r.shutdown
    THEN [r EXCEPT !.pc = "done"]
    ELSE [r EXCEPT !.pc = "recv"]

\* Whether the adapter .filter lets the RPC through: rpc.successfully_stored(key).
successfully_stored(rpc, key) ==
    /\ rpc.kind = "StoreResponse"
    /\ rpc.payload = "Success"
    /\ rpc.about = key

\* Variant of next_recv that returns every RPC it reads, whatever the filters.
next_recv_unfiltered(r) ==
    LET update == Head(r.queue)
        rest   == [r EXCEPT !.queue = Tail(@), !.pc = "head"]
    IN  IF update.kind = "RpcReceived"
        THEN [rest EXCEPT !.yielded = Append(@, update.rpc)]
        ELSE IF update = Update_StateChange("ShuttingDown")
        THEN [rest EXCEPT !.shutdown = TRUE]
        ELSE rest

\* Receptions::next, self.iter.next() returning `update`: an RPC that passes the
\* filters is returned, and the consumer (count, collect) asks for the next; the
\* shutdown is remembered; anything else leads back to the head of the loop.
next_recv(r) ==
    LET update == Head(r.queue)
        rest   == [r EXCEPT !.queue = Tail(@), !.pc = "head"]
    IN  IF update.kind = "RpcReceived"
        THEN IF /\ passes(r, update.rpc)
                /\ r.filter # None => successfully_stored(update.rpc, r.filter[1])
             THEN [rest EXCEPT !.yielded = Append(@, update.rpc),
                               !.take = IF @ = None THEN None ELSE Some(@[1] - 1)]
             ELSE rest
        ELSE IF update = Update_StateChange("ShuttingDown")
        THEN [rest EXCEPT !.shutdown = TRUE]
        ELSE rest

\* One turn of the loop of Receptions::next, up to the blocking read of the bus.
RxHead ==
    /\ rx.pc = "head"
    /\ rx' = next_head(rx, steady)
    /\ UNCHANGED <<tableVars, state, conflicts, handlerVars, loopVars, storageVars,
                   publish, outbound, steady, wave>>

\* The blocking read returns: the bus handed the receiver an update.
RxRecv ==
    /\ rx.pc = "recv"
    /\ rx.queue # <<>>
    /\ rx' = next_recv(rx)
    /\ UNCHANGED <<tableVars, state, conflicts, handlerVars, loopVars, storageVars,
                   publish, outbound, steady, wave>>

\* The RPCs that the iterator is explored with: two kinds from two senders.
RxRpcs ==
    [kind : {"Ping", "ProbeResponse"}, sender : {0, 1}, payload : {None}, about : {0}]

\* resources.receptions() with the builders chained, called by a thread of the
\* node (ping, prune_bucket, wave, store), which keeps the resources and their bus
\* alive; the thread then consumes the iterator to its end, as count() does.
Receptions(lifespan, kind, senders) ==
    /\ rx.pc = "none"
    /\ wave.pc = "idle"
    /\ publish.pc = "idle"
    /\ rx' = receptions(steady, lifespan, kind, senders, None, None)
    /\ UNCHANGED <<tableVars, state, conflicts, handlerVars, loopVars, storageVars,
                   publish, outbound, steady, wave>>

ReceptionsNext ==
    \/ \E lifespan \in {None, Some(NETWORK_TIMEOUT_S)}, kind \in {None, Some("Ping")},
          senders \in {None, Some(<<0>>)} : Receptions(lifespan, kind, senders)
    \/ RxHead
    \/ RxRecv
    \/ \E rpc \in RxRpcs : Deliver(rpc)
    \/ ReceptionWake
    \/ Drop
    \/ SteadyTick

SpecReceptions == Init /\ [][ReceptionsNext]_vars

\* The RPCs among the updates the iterator has read from the bus so far: those it
\* heard less those still waiting in its receiver.
rpcs_read(r) ==
    SubSeq(r.heard, 1,
           Len(r.heard) - Len(SelectSeq(r.queue, LAMBDA u : u.kind = "RpcReceived")))

\* C24 as stated: every RPC the iterator yields passes its kind filter and its
\* sender filter, and once the iterator has ended it has yielded, once each, every
\* RPC that passes them among those broadcast while it was live.
C24_Original ==
    /\ \A k \in 1 .. Len(rx.yielded) : passes(rx, rx.yielded[k])
    /\ rx.pc = "done" =>
           rx.yielded = SelectSeq(rx.heard, LAMBDA rpc : passes(rx, rpc))

\* C24, amended: every RPC the iterator yields passes its kind filter and its
\* sender filter, and at any moment it has yielded, once each and in the order of
\* the broadcasts, exactly the RPCs that pass them among those it has read from
\* the bus; an RPC still unread when the iterator ends is not yielded.
C24_YieldsWhatItRead ==
    /\ \A k \in 1 .. Len(rx.yielded) : passes(rx, rx.yielded[k])
    /\ rx.yielded = SelectSeq(rpcs_read(rx), LAMBDA rpc : passes(rx, rpc))

\* An iterator with both filters that ended having read a Tick, an RPC it let
\* through and an RPC it held back.
C24_Witness ==
    /\ rx.pc = "done"
    /\ rx.kind_filter # None /\ rx.sender_filter # None
    /\ rx.yielded # <<>>
    /\ Len(rpcs_read(rx)) > Len(rx.yielded)

\* C25 as stated: an iterator with a window ends once the window has elapsed or
\* the node is ShuttingDown.  It never comes to this: the window has elapsed, the
\* node is ShuttingDown, the reception loop has exited, so that nothing is
\* broadcast any more, and the iterator waits for the bus with nothing to read.
C25_Original ==
    ~ /\ rx.pc = "recv"
      /\ rx.queue = <<>>
      /\ rx.timeout # None /\ steady > rx.timeout[1]
      /\ state = "ShuttingDown"
      /\ loop["reception"] = "exited"

-----------------------------------------------------------------------------
(* Waves (Resources::wave) and the two operations built on them that return  *)
(* peers: locate and probe.  `known`, `named` and `expected` of the wave     *)
(* record what the call started from, the peers that the responses handed to *)
(* the strategy named, and the count the current round waits for.            *)

\* configuration.impatience (1 by default).
IMPATIENCE == 1

\* Calls of locate and probe in one behaviour.
MaxWaves == 1

Ok(value) == [kind |-> "Ok", value |-> value]

Err(error) == [kind |-> "Err", error |-> error]

\* Vec::dedup: of each run of equal elements only the first stays.
Dedup(s) ==
    LET keep == {k \in 1 .. Len(s) : k = 1 \/ s[k] # s[k - 1]}
        pos(n) == CHOOSE k \in keep : Cardinality({j \in keep : j <= k}) = n
    IN  [n \in 1 .. Cardinality(keep) |-> s[pos(n)]]

\* closest.sort_by(|a, b| (a.id ^ target).cmp(&(b.id ^ target))) and then
\* closest.dedup().
sort_dedup(s, target) == Dedup(Drain(SortDesc(s, target)))

\* Rpc::successfully_located(id): the node of a LocateResponse for `id` whose
\* result is Found.
successfully_located(rpc, id) ==
    IF rpc.kind = "LocateResponse" /\ rpc.payload.kind = "Found" /\ rpc.about = id
    THEN Some(rpc.payload.node) ELSE None

\* Rpc::is_helping_locate(id): the nodes of a LocateResponse for `id` whose result
\* is ClosestNodes.
is_helping_locate(rpc, id) ==
    IF rpc.kind = "LocateResponse" /\ rpc.payload.kind = "ClosestNodes" /\ rpc.about = id
    THEN Some(rpc.payload.nodes) ELSE None

\* Rpc::is_probe_response(target): the nodes of a ProbeResponse for `target`.
is_probe_response(rpc, target) ==
    IF rpc.kind = "ProbeResponse" /\ rpc.about = target
    THEN Some(rpc.payload.nodes) ELSE None

\* The closure that filter_map is given by the strategy of locate and by that of
\* probe.
helping(op_, rpc, target) ==
    IF op_ = "locate" THEN is_helping_locate(rpc, target)
    ELSE is_probe_response(rpc, target)

\* responses.iter().filter_map(helping).flat_map(|vec| vec.into_iter()): the
\* nodes of the responses that help, in the order of the responses.
RECURSIVE flat_map(_, _, _)
flat_map(responses, op_, target) ==
    IF responses = <<>> THEN <<>>
    ELSE LET nodes == helping(op_, Head(responses), target)
         IN  (IF nodes = None THEN <<>> ELSE nodes[1])
             \o flat_map(Tail(responses), op_, target)

\* closest_nodes_to(target).filter(|info| &info.id != &self.id): the peers of the
\* table, the local node left out.
known_peers(parent, bk, target) ==
    SelectSeq(closest_nodes_to(parent, bk, target), LAMBDA id : id # parent)

\* The first lines of locate and probe after the early return: the first k_factor
\* of these peers.
closest_known(parent, bk, target) == Take(known_peers(parent, bk, target), K_FACTOR)

\* The closure's Continue: the alpha closest that were not queried, the local
\* node left out.
next_to_query(parent, closest, queried) ==
    Take(SelectSeq(closest, LAMBDA id : ~Contains(queried, id) /\ id # parent), ALPHA)

WaveStrategy_Continue(nodes, closest) ==
    [kind |-> "Continue", nodes |-> nodes, closest |-> closest]

WaveStrategy_Halt(result, closest) ==
    [kind |-> "Halt", result |-> result, closest |-> closest]

\* The strategy closure of locate.
locate_strategy(parent, bk, target, closest, responses, queried) ==
    LET found  == SelectSeq(responses, LAMBDA rpc : successfully_located(rpc, target) # None)
        merged == sort_dedup(flat_map(responses, "locate", target) \o closest,
                             target)
    IN  IF found # <<>>
        THEN WaveStrategy_Halt(successfully_located(Head(found), target)[1], closest)
        ELSE IF specific_node(parent, bk, target) # None
        THEN WaveStrategy_Halt(specific_node(parent, bk, target)[1], closest)
        ELSE WaveStrategy_Continue(next_to_query(parent, merged, queried), merged)

\* The strategy closure of probe.
probe_strategy(parent, target, depth, closest, responses, queried) ==
    LET merged == sort_dedup(flat_map(responses, "probe", target) \o closest,
                             target)
    IN  IF Len(queried) >= depth
        THEN WaveStrategy_Halt(Take(merged, K_FACTOR), merged)
        ELSE WaveStrategy_Continue(next_to_query(parent, merged, queried), merged)

\* The call of wave: the deadline and the seeds.  `known` are the peers of the
\* table at the call.
start_wave(w, op_, target, depth, closest, known, now_) ==
    [w EXCEPT !.pc = "round", !.op = op_, !.target = target, !.depth = depth,
              !.closest = closest, !.nodes_to_query = Take(closest, ALPHA),
              !.queried = <<>>, !.deadline = now_ + 3 * NETWORK_TIMEOUT_S,
              !.result = None, !.calls = @ + 1, !.known = known, !.named = {},
              !.expected = 0]

\* Resources::locate: the early return when the table holds the target, else the
\* start of the wave.
LocateCall(target) ==
    /\ wave.pc = "idle"
    /\ wave.calls < MaxWaves
    /\ publish.pc = "idle"
    /\ rx.pc = "none"
    /\ ~dropped
    /\ wave' = IF specific_node(parent_id, buckets, target) # None
               THEN [wave EXCEPT !.op = "locate", !.target = target, !.calls = @ + 1,
                                 !.result = Ok(specific_node(parent_id, buckets, target)[1])]
               ELSE start_wave(wave, "locate", target, 0,
                               closest_known(parent_id, buckets, target),
                               known_peers(parent_id, buckets, target), steady)
    /\ UNCHANGED <<tableVars, state, conflicts, handlerVars, loopVars, storageVars,
                   publish, outbound, steady, rx>>

\* Resources::probe, called by a thread of the node (bootstrap, the maintenance
\* loop) or through the handle while the node is alive: the bucket of the target
\* is marked as probed, and the wave starts.
ProbeCall(target, depth) ==
    /\ wave.pc = "idle"
    /\ wave.calls < MaxWaves
    /\ publish.pc = "idle"
    /\ rx.pc = "none"
    /\ ~dropped
    /\ last_probe' = mark_bucket_as_probed(last_probe, parent_id, target, now)
    /\ wave' = start_wave(wave, "probe", target, depth,
                          closest_known(parent_id, buckets, target),
                          known_peers(parent_id, buckets, target), steady)
    /\ UNCHANGED <<tableVars, state, conflicts, handlerVars, dropped, loop, conflicts_empty,
                   refreshes, maintenance, storageVars, publish, outbound, steady, rx>>

\* wave, the head of its loop: past the deadline or with no node to query the wave
\* returns UnresponsiveNetwork; else the round's iterator is created, the RPC is
\* sent to every node of the round and the nodes are moved to `queried`.
WaveRound ==
    /\ wave.pc = "round"
    /\ IF steady < wave.deadline /\ wave.nodes_to_query # <<>>
       THEN LET n == Min(Len(wave.nodes_to_query),
                         IF ALPHA > IMPATIENCE THEN ALPHA - IMPATIENCE ELSE 0)
            IN  /\ rx' = receptions(steady, Some(NETWORK_TIMEOUT_S), None,
                                    Some(wave.nodes_to_query), None, Some(n))
                /\ wave' = [wave EXCEPT !.pc = "collect",
                                        !.queried = @ \o wave.nodes_to_query,
                                        !.nodes_to_query = <<>>,
                                        !.expected = n]
       ELSE /\ wave' = [wave EXCEPT !.pc = "idle",
                                    !.result = Err("UnresponsiveNetwork")]
            /\ rx' = rx
    /\ UNCHANGED <<tableVars, state, conflicts, handlerVars, loopVars, storageVars,
                   publish, outbound, steady>>

\* wave, after responses.collect(): the strategy decides between another round and
\* the result.
WaveStrategy ==
    /\ wave.pc = "collect"
    /\ rx.pc = "done"
    /\ LET responses == rx.yielded
           decision  == IF wave.op = "locate"
                        THEN locate_strategy(parent_id, buckets, wave.target, wave.closest,
                                             responses, wave.queried)
                        ELSE probe_strategy(parent_id, wave.target, wave.depth, wave.closest,
                                            responses, wave.queried)
           named     == wave.named \cup SeqSet(flat_map(responses, wave.op, wave.target))
       IN  wave' = IF decision.kind = "Halt"
                   THEN [wave EXCEPT !.pc = "idle", !.result = Ok(decision.result),
                                     !.closest = decision.closest, !.named = named]
                   ELSE [wave EXCEPT !.pc = "round", !.nodes_to_query = decision.nodes,
                                     !.closest = decision.closest, !.named = named]
    /\ rx' = NoReceptions
    /\ UNCHANGED <<tableVars, state, conflicts, handlerVars, loopVars, storageVars,
                   publish, outbound, steady>>

\* The table, the state and the conflicts that the handlers of three RPCs, from
\* the peers 0, 1 and 2, leave when they run together (Spec reaches this state):
\* the farthest bucket holds the peer 2 twice.
RacedTable ==
    [buckets   |-> [TableOf(<<>>) EXCEPT ![HASH_SIZE - 1] = <<2, 2>>],
     state     |-> "OnGrid",
     conflicts |-> <<EvictionConflict(0, 1), EvictionConflict(1, 2)>>]

\* The tables a wave is started from: those of LoopsInit and the raced one.
WaveTables ==
    {[buckets   |-> TableOf(known),
      state     |-> IF leaves_off_grid(TRUE, table_len(TableOf(known)))
                    THEN "OnGrid" ELSE "OffGrid",
      conflicts |-> <<>>] : known \in Acquainted}
    \cup {RacedTable}

\* A node with one of these tables: the loops at the head of a pass, no handler
\* running, no call made yet.
WaveInit ==
    \E t \in WaveTables :
        /\ parent_id = LocalId
        /\ buckets = t.buckets
        /\ pool = {}
        /\ last = NoCall
        /\ LoopsSpawned
        /\ StorageNew
        /\ NoPublish
        /\ NoWave
        /\ state = t.state
        /\ conflicts = t.conflicts
        /\ conflicts_held = FALSE
        /\ pc = [th \in Threads |-> "idle"]
        /\ todo = [th \in Threads |-> <<>>]
        /\ info = [th \in Threads |-> None]
        /\ defensive = [th \in Threads |-> FALSE]
        /\ update_result = [th \in Threads |-> None]
        /\ off_grid = [th \in Threads |-> FALSE]
        /\ is_new = [th \in Threads |-> FALSE]
        /\ introduced = {id \in Peers : \E i \in Indices : Contains(t.buckets[i], id)}
        /\ received = 0

\* The ids that locate is called with: a peer that the acquainted table holds and
\* one that no table holds.
LocateTargets == {1, 3}

\* The RPCs that a locate is explored with: LocateResponses for the target 3 and
\* for another id, which name the target, another peer, an unknown peer, or the
\* local node and a known peer; and RPCs of another kind.
LocateRpcs ==
    [kind : {"LocateResponse"}, sender : {1, 2}, about : {3, 7},
     payload : {Found(3), Found(0), ClosestNodes(<<2>>), ClosestNodes(<<LocalId, 1>>)}]
    \cup [kind : {"Ping"}, sender : {1, 3}, about : {0}, payload : {None}]

LocateNext ==
    \/ \E target \in LocateTargets : LocateCall(target)
    \/ WaveRound
    \/ RxHead
    \/ RxRecv
    \/ WaveStrategy
    \/ \E rpc \in LocateRpcs : Deliver(rpc)
    \/ ReceptionWake
    \/ Drop
    \/ SteadyTick

SpecLocate == WaveInit /\ [][LocateNext]_vars

NoDuplicates(s) == \A j, k \in 1 .. Len(s) : s[j] = s[k] => j = k

\* C28 as stated: within one wave no peer is sent the RPC more than once, the
\* local node is not queried, and the peers of the round to come were not queried
\* before and are among the peers the call knew and those the responses named.
C28_Original ==
    /\ NoDuplicates(wave.queried)
    /\ ~Contains(wave.queried \o wave.nodes_to_query, parent_id)
    /\ \A k \in 1 .. Len(wave.nodes_to_query) :
          /\ wave.pc = "round" /\ wave.queried # <<>> =>
                 ~Contains(wave.queried, wave.nodes_to_query[k])
          /\ wave.nodes_to_query[k] \in SeqSet(wave.known) \cup wave.named

\* The ids that probe is called with: the local id, as bootstrap does, and the id
\* of a peer.
ProbeTargets == {LocalId, 3}

\* The RPCs that a probe is explored with: ProbeResponses for either target, which
\* name an unknown peer, the local node and a known peer, or the target and an
\* unknown peer; and RPCs of another kind.
ProbeRpcs ==
    [kind : {"ProbeResponse"}, sender : {1, 2}, about : ProbeTargets,
     payload : {ClosestNodes(<<2>>), ClosestNodes(<<LocalId, 1>>), ClosestNodes(<<3, 2>>)}]
    \cup [kind : {"Ping"}, sender : {1, 3}, about : {0}, payload : {None}]

ProbeNext ==
    \/ \E target \in ProbeTargets, depth \in 1 .. K_FACTOR : ProbeCall(target, depth)
    \/ WaveRound
    \/ RxHead
    \/ RxRecv
    \/ WaveStrategy
    \/ \E rpc \in ProbeRpcs : Deliver(rpc)
    \/ ReceptionWake
    \/ Drop
    \/ SteadyTick

SpecProbe == WaveInit /\ [][ProbeNext]_vars

\* C22 as stated: every wave returns; one whose strategy does not halt returns
\* UnresponsiveNetwork when no peer is left to query or when the deadline has
\* passed.  It never comes to this: the deadline has passed, the reception loop
\* has exited, so that nothing is broadcast any more, and the wave waits for the
\* responses of a round with nothing to read.
C22_Original ==
    /\ wave.result # None /\ wave.result.kind = "Err" =>
           wave.result.error = "UnresponsiveNetwork"
    /\ ~ /\ wave.pc = "collect"
         /\ steady >= wave.deadline
         /\ rx.pc = "recv" /\ rx.queue = <<>>
         /\ loop["reception"] = "exited"

\* C29 as stated: a round sends the RPC to each of its peers; it collects at most
\* min(number of its peers, alpha - impatience) RPCs, all from its peers; once it
\* has that many it reads the bus no more; and a round whose timeout has elapsed
\* is not left waiting for the bus with nothing to come.
C29_Original ==
    wave.pc = "collect" =>
        /\ \A k \in 1 .. Len(rx.sender_filter[1]) :
              Contains(wave.queried, rx.sender_filter[1][k])
        /\ Len(rx.yielded) <= Min(Len(rx.sender_filter[1]), ALPHA - IMPATIENCE)
        /\ \A k \in 1 .. Len(rx.yielded) :
              Contains(rx.sender_filter[1], rx.yielded[k].sender)
        /\ rx.pc = "recv" => Len(rx.yielded) < wave.expected
        /\ ~ /\ rx.pc = "recv" /\ rx.queue = <<>>
             /\ steady > rx.timeout[1]
             /\ state = "ShuttingDown"
             /\ loop["reception"] = "exited"

\* C30 as stated: a probe returns a result only when at least `depth` peers were
\* queried; the result holds at most k_factor peers, none twice, in ascending
\* distance to the target, and they are the closest to the target among the peers
\* the table held at the call and those that the collected responses named.
C30_Original ==
    wave.op = "probe" /\ wave.result # None /\ wave.result.kind = "Ok" =>
        LET value   == wave.result.value
            learned == SeqSet(wave.known) \cup wave.named
        IN  /\ Cardinality(SeqSet(wave.queried)) >= wave.depth
            /\ Len(value) <= K_FACTOR
            /\ NoDuplicates(value)
            /\ \A k \in 1 .. (Len(value) - 1) :
                  cmp_less(bitxor(value[k], wave.target), bitxor(value[k + 1], wave.target))
            /\ SeqSet(value) \subseteq learned
            /\ Len(value) = Min(K_FACTOR, Cardinality(learned))
            /\ \A id \in learned \ SeqSet(value) : \A k \in 1 .. Len(value) :
                  cmp_less(bitxor(value[k], wave.target), bitxor(id, wave.target))


-----------------------------------------------------------------------------
(* store and mass_store after the probe, and the responses they count.      *)

\* `self.configuration.k_factor / 3`: the successful StoreResponses a store waits
\* for.
quorum == K_FACTOR \div QUORUM_DIVISOR

\* store, mass_store after the probe: the iterator of the successful
\* StoreResponses for the key is created, then the Store or MassStore RPC goes to
\* every candidate.
PublishSend ==
    /\ publish.pc = "send"
    /\ rx.pc = "none"
    /\ outbound' = outbound \cup {[kind |-> IF publish.mass THEN "MassStore" ELSE "Store",
                                   to |-> n] : n \in publish.candidates}
    /\ rx' = receptions(steady, Some(NETWORK_TIMEOUT_S), Some("StoreResponse"), None,
                        Some(publish.key), Some(quorum))
    /\ publish' = [publish EXCEPT !.pc = "count"]
    /\ UNCHANGED <<tableVars, state, conflicts, handlerVars, loopVars, storageVars,
                   steady, wave>>

\* store, mass_store, `responses.count() == k_factor / 3`: Ok if the iterator
\* yielded that many RPCs, else UnresponsiveNetwork.  `responders` are their
\* senders.
PublishCount ==
    /\ publish.pc = "count"
    /\ rx.pc = "done"
    /\ publish' = [publish EXCEPT !.pc = "idle",
                                  !.responders = [k \in 1 .. Len(rx.yielded) |->
                                                     rx.yielded[k].sender],
                                  !.result = IF Len(rx.yielded) = quorum
                                             THEN Some("Ok")
                                             ELSE Some("UnresponsiveNetwork")]
    /\ rx' = NoReceptions
    /\ UNCHANGED <<tableVars, state, conflicts, handlerVars, loopVars, storageVars,
                   outbound, steady, wave>>

\* The RPCs that a store is explored with: StoreResponses for either key, with and
\* without success, and RPCs of another kind.
PublishRpcs ==
    [kind : {"StoreResponse"}, sender : {0, 1}, about : StorageKeys,
     payload : {"Success", "StorageFull"}]
    \cup [kind : {"Ping"}, sender : {2}, about : {0}, payload : {None}]

PublishNext ==
    \/ \E key \in StorageKeys, mass \in BOOLEAN : PublishCall(key, mass)
    \/ PublishProbe
    \/ PublishSend
    \/ PublishCount
    \/ RxHead
    \/ RxRecv
    \/ \E rpc \in PublishRpcs : Deliver(rpc)
    \/ ReceptionWake
    \/ SteadyTick

SpecPublish == LoopsInit /\ [][PublishNext]_vars

\* C21 as stated: a store or mass_store returns Ok only if successful
\* StoreResponses for the key came from at least k_factor / 3 of the candidates.
C21_Original ==
    publish.result = Some("Ok") =>
        Cardinality(SeqSet(publish.responders) \cap publish.candidates) >= quorum


-----------------------------------------------------------------------------
(* The queue of conflicts under the conflict-resolution loop and the         *)
(* handlers of the PingResponses.                                            *)

\* The conflict-resolution loop waits for the mutex of the queue, which a
\* handler of a PingResponse took twice and never gives back.
LoopStarved ==
    /\ loop["conflict_resolution"] = "blocked"
    /\ conflicts_held
    /\ ~dropped

\* C31 as stated: no conflict is pinged more than PING_LIMIT times, and every
\* conflict leaves the queue, reverted or dropped: the loop is never kept from
\* the queue while a conflict waits in it.
C31_Original ==
    /\ \A k \in 1 .. Len(conflicts) : conflicts[k].times_pinged <= PING_LIMIT
    /\ ~(LoopStarved /\ conflicts # <<>>)

\* C32 as stated: the handler of a PingResponse whose sender is the evicted node
\* of a queued conflict completes, with the conflict removed and reverted: no
\* such handler is found holding the mutex of the queue and waiting for it, with
\* the conflict still queued.
C32_Original ==
    \A t \in Threads :
        ~ /\ pc[t] = "blocked"
          /\ conflicts_held
          /\ conflicts # <<>>

\* The state a node goes to when it leaves Defensive.
GridStateFor(len) == IF len > K_FACTOR THEN "OnGrid" ELSE "OffGrid"

\* C33 as stated: whatever the interleaving, a step that takes the node out of
\* Defensive (other than the drop of the handle) finds the queue of conflicts
\* empty and sets OnGrid when the table holds more than K_FACTOR descriptors,
\* OffGrid otherwise; and a Defensive node whose handle is not dropped is not
\* left with the loop that leaves Defensive kept from the queue for ever.
C33_Original ==
    /\ [][state = "Defensive" /\ state' \notin {"Defensive", "ShuttingDown"} =>
              /\ conflicts = <<>>
              /\ state' = GridStateFor(table_len(buckets))]_vars
    /\ [](~(state = "Defensive" /\ LoopStarved))


-----------------------------------------------------------------------------
(* The maintenance loop over the hours: the refresh of the oldest bucket and *)
(* the republication of the storage, with RPC handlers storing entries       *)
(* meanwhile.                                                                *)

\* Last hour of the clock in the exploration of the maintenance loop.
MaxHours == 3

\* An hour passes.
HourPasses ==
    /\ now < MaxHours
    /\ now' = now + 1
    /\ UNCHANGED <<key_groups, op, returned, calls, outsideStorage>>

\* The entries that the handler of a Store RPC hands to the storage meanwhile,
\* one Store RPC at a time, with an expiration beyond every clamp.
RepublishEntries == {Value(0), Blob(<<0>>)}

\* The storage when the exploration begins: empty, or holding one entry that was
\* stored, and then marked by the republication of a pass, at hour 0.
Republishable ==
    {[key \in StorageKeys |-> None],
     [key \in StorageKeys |->
         IF key = 0
         THEN Some(<<[ExtendedEntry(Value(0), BASE_EXPIRATION_TIME_HRS)
                         EXCEPT !.republish_ready = TRUE]>>)
         ELSE None]}

\* A node whose buckets were never probed, or were all probed when the
\* exploration begins (by the probes of bootstrap, store and retrieve).
MaintenanceInit ==
    \E known \in Acquainted, probed \in {None, Some(0)}, stored \in Republishable :
        /\ parent_id = LocalId
        /\ buckets = TableOf(known)
        /\ pool = {}
        /\ last = NoCall
        /\ dropped = FALSE
        /\ loop = [l \in Loops |-> IF l = "conflict_resolution" THEN "lock" ELSE "wait"]
        /\ conflicts_empty = TRUE
        /\ refreshes = 0
        /\ last_probe = [i \in Indices |-> probed]
        /\ maintenance = [last_republish |-> 0, refreshed |-> None, republished |-> None]
        /\ key_groups = stored
        /\ now = 0
        /\ op = [t \in Threads |-> None]
        /\ returned = None
        /\ calls = 0
        /\ NoPublish
        /\ NoWave
        /\ state = IF leaves_off_grid(TRUE, table_len(buckets)) THEN "OnGrid" ELSE "OffGrid"
        /\ conflicts = <<>>
        /\ conflicts_held = FALSE
        /\ pc = [t \in Threads |-> "idle"]
        /\ todo = [t \in Threads |-> <<>>]
        /\ info = [t \in Threads |-> None]
        /\ defensive = [t \in Threads |-> FALSE]
        /\ update_result = [t \in Threads |-> None]
        /\ off_grid = [t \in Threads |-> FALSE]
        /\ is_new = [t \in Threads |-> FALSE]
        /\ introduced = SeqSet(known)
        /\ received = 0

MaintenanceNext ==
    \/ \E key \in StorageKeys, entry \in RepublishEntries :
          StoreCall(1, key, entry, MaxHours + BASE_EXPIRATION_TIME_HRS)
    \/ StoreLocked(1)
    \/ HourPasses
    \/ MaintenanceWake
    \/ Republish
    \/ MarkAllAsReady

SpecMaintenance == MaintenanceInit /\ [][MaintenanceNext]_vars

\* C34 as stated: a pass of the maintenance loop that refreshes the oldest bucket
\* leaves that bucket with the time of the pass as its last probe, so that it is
\* no longer due for a refresh.
C34_Original ==
    [][maintenance'.refreshed # None /\ refreshes' = refreshes + 1 =>
          last_probe'[maintenance'.refreshed[1]] = Some(now)]_vars

\* The republication of a pass: from the test of last_republish to the stores.
Republishes == loop["maintenance"] = "republish" /\ loop'["maintenance"] = "mark"

\* The end of the republication of a pass.
Marks == loop["maintenance"] = "mark" /\ loop'["maintenance"] = "wait"

\* The pair as the maintenance loop hands it to store.
Republished(key, e) == [key |-> key, entry |-> e.entry, expiration |-> e.expiration]

\* C35 as stated: the republication of a pass hands every entry that the storage
\* holds at that moment to store, and when it ends no entry is marked ready.
C35_Original ==
    /\ [][Republishes =>
              \A key \in StorageKeys : \A i \in 1 .. Len(Group(key_groups', key)) :
                  Contains(maintenance'.republished[1],
                           Republished(key, Group(key_groups', key)[i]))]_vars
    /\ [][Marks =>
              \A key \in StorageKeys : \A i \in 1 .. Len(Group(key_groups', key)) :
                  ~Group(key_groups', key)[i].republish_ready]_vars

\* C35, amended: the republication of a pass hands to store, with their
\* expirations, exactly the entries that are marked ready and have not expired
\* at that moment, and leaves the marks as they are; when it ends, every entry
\* that the storage holds is marked ready and nothing else has changed.
C35_ReadyRepublishedThenMarked ==
    /\ [][Republishes =>
              /\ maintenance'.republished # None
              /\ \A key \in StorageKeys : \A i \in 1 .. Len(Group(key_groups, key)) :
                    LET e == Group(key_groups, key)[i]
                    IN  (e.republish_ready /\ now < e.expiration)
                            <=> Contains(maintenance'.republished[1], Republished(key, e))
              /\ \A k \in 1 .. Len(maintenance'.republished[1]) :
                    \E i \in 1 .. Len(Group(key_groups, maintenance'.republished[1][k].key)) :
                        maintenance'.republished[1][k] =
                            Republished(maintenance'.republished[1][k].key,
                                        Group(key_groups, maintenance'.republished[1][k].key)[i])
              /\ \A key \in StorageKeys : \A i \in 1 .. Len(Group(key_groups', key)) :
                    \E j \in 1 .. Len(Group(key_groups, key)) :
                        Group(key_groups', key)[i] = Group(key_groups, key)[j]]_vars
    /\ [][Marks =>
              \A key \in StorageKeys :
                  /\ Len(Group(key_groups', key)) = Len(Group(key_groups, key))
                  /\ \A i \in 1 .. Len(Group(key_groups, key)) :
                        Group(key_groups', key)[i] =
                            [Group(key_groups, key)[i] EXCEPT !.republish_ready = TRUE]]_vars

\* A republication has ended that handed one entry to store while the storage
\* held another that was not ready; both are marked ready now.
C35_Witness ==
    /\ loop["maintenance"] = "wait"
    /\ maintenance.republished # None
    /\ Len(maintenance.republished[1]) = 1
    /\ storage_len(key_groups) = 2
    /\ \A key \in StorageKeys : \A i \in 1 .. Len(Group(key_groups, key)) :
          Group(key_groups, key)[i].republish_ready

-----------------------------------------------------------------------------
(* The expiration of a cached copy (Resources::calculate_cache_expiration),  *)
(* in minutes.                                                               *)

\* Configuration::expiration_distance_threshold: 3 by default (node/mod.rs),
\* 8 by default in the factory, and 1 as a value the factory may be given.
Thresholds == {1, 3, 8}

\* Heights of reference XOR key that the three bits of the model do not reach.
MaxHeight == 25

Heights == 0 .. MaxHeight

\* Instants, in minutes, at which the expiration is computed.
CacheTimes == 0 .. 2

\* Configuration::base_cache_time_mins: the base time in minutes.
base_cache_time_mins == BASE_EXPIRATION_TIME_HRS * 60

\* usize::saturating_sub
saturating_sub(a, b) == IF a > b THEN a - b ELSE 0

\* calculate_cache_expiration with the threshold left out of the distance.
cache_expiration_unadjusted(distance, threshold, time) ==
    time + base_cache_time_mins \div 2^Min(16, distance)

\* calculate_cache_expiration from the height on: the adjusted and the clamped
\* distance, the expiration factor 2i64.pow(clamped_distance) and the instant
\* time::now() + Duration::minutes(base_cache_time_mins / expiration_factor).
cache_expiration(distance, threshold, time) ==
    LET adjusted_distance == saturating_sub(distance, threshold)
        clamped_distance == Min(16, adjusted_distance)
        expiration_factor == 2^clamped_distance
    IN  time + base_cache_time_mins \div expiration_factor

\* Resources::calculate_cache_expiration at the instant `time`.
calculate_cache_expiration(candidate_id, key, threshold, time) ==
    cache_expiration(unwrap_or(height(bitxor(candidate_id, key)), 0), threshold, time)

\* retrieve computes the expiration for its cache candidate and the key.
CalculateCacheExpiration(candidate_id, key, threshold, time) ==
    /\ last' = [op |-> "calculate_cache_expiration", candidate_id |-> candidate_id,
                key |-> key, height |-> height(bitxor(candidate_id, key)),
                threshold |-> threshold, time |-> time,
                result |-> calculate_cache_expiration(candidate_id, key, threshold, time)]
    /\ UNCHANGED <<parent_id, buckets, pool, nodeVars>>

\* The same computation for a candidate and a key of 160 bits whose XOR has the
\* height `distance`.
CacheExpirationAt(distance, threshold, time) ==
    /\ last' = [op |-> "calculate_cache_expiration", candidate_id |-> None,
                key |-> None, height |-> Some(distance),
                threshold |-> threshold, time |-> time,
                result |-> cache_expiration(distance, threshold, time)]
    /\ UNCHANGED <<parent_id, buckets, pool, nodeVars>>

CacheNext ==
    \/ \E candidate_id \in IDs, key \in IDs, threshold \in Thresholds, time \in CacheTimes :
          CalculateCacheExpiration(candidate_id, key, threshold, time)
    \/ \E distance \in Heights, threshold \in Thresholds, time \in CacheTimes :
          CacheExpirationAt(distance, threshold, time)

SpecCache == Init /\ [][CacheNext]_vars

\* C36: the cache expiration for a candidate c and a key k is
\* now + B / 2^min(16, max(0, height(c XOR k) - expiration_distance_threshold)),
\* B being base_expiration_hours x 60 minutes (whole minutes): the full base time
\* when the height is at most the threshold, half of the previous amount for each
\* further bit of distance, and never less than B / 2^16.
C36_CacheExpiration ==
    last.op = "calculate_cache_expiration" /\ last.height # None =>
        LET B == BASE_EXPIRATION_TIME_HRS * 60
            d == last.height[1]
            over == d - last.threshold
            ttl == last.result - last.time
        IN  /\ ttl = B \div 2^Min(16, Max(0, over))
            /\ over <= 0 => ttl = B
            /\ over > 0 /\ over <= 16 =>
                  ttl = (cache_expiration(d - 1, last.threshold, last.time) - last.time) \div 2
            /\ ttl >= B \div 2^16

\* A distance more than 16 bits past the threshold: the factor stays at 2^16.
C36_Witness ==
    /\ last.op = "calculate_cache_expiration"
    /\ last.height # None
    /\ last.height[1] - last.threshold > 16
    /\ last.result = last.time + (BASE_EXPIRATION_TIME_HRS * 60) \div 65536

-----------------------------------------------------------------------------
(* The state once the node shuts down.                                       *)

\* C37 as stated: ShuttingDown is absorbing; no step of update_table and no step
\* of the conflict-resolution loop that runs after or beside the drop takes the
\* state from ShuttingDown to another state.
C37_Original ==
    [][state = "ShuttingDown" => state' = "ShuttingDown"]_vars

\* The part of C37 that is about the conflict-resolution loop: its wake leaves
\* ShuttingDown as it is.
C37_LoopKeepsShuttingDown ==
    [][/\ state = "ShuttingDown"
       /\ loop["conflict_resolution"] = "sleep"
       /\ loop'["conflict_resolution"] # "sleep"
       => state' = "ShuttingDown"]_vars

-----------------------------------------------------------------------------
(* The entries of a bucket, one per peer.                                    *)

\* C38 as stated: whatever updates and reversions have run, no bucket holds two
\* descriptors with the same id.
C38_Original ==
    \A i \in Indices : \A j, k \in 1 .. Len(buckets[i]) :
        j # k => buckets[i][j] # buckets[i][k]

-----------------------------------------------------------------------------
(* update_table called for one descriptor after another, as the test        *)
(* generating_too_many_conflicts_causes_the_node_to_enter_defensive_state    *)
(* calls it.                                                                 *)

\* node.resources.update_table(info), run to its end before the next call.
UpdateTable(node) ==
    /\ \A t \in Threads : pc[t] = "idle"
    /\ LET index == bucket_for_node(parent_id, node)
           t == update_table(parent_id,
                             [buckets |-> buckets, state |-> state,
                              conflicts |-> conflicts, changes |-> <<>>],
                             node)
       IN  /\ room(rx, Len(t.changes))
           /\ buckets' = t.buckets
           /\ state' = t.state
           /\ conflicts' = t.conflicts
           /\ rx' = broadcast(rx, t.changes)
           /\ last' = [op |-> "update_table", node |-> node, index |-> index,
                       pre |-> buckets[index], state |-> state]
    /\ UNCHANGED <<parent_id, pool, conflicts_held, pc, todo, info, defensive,
                   update_result, off_grid, is_new, introduced, received, loopVars,
                   storageVars, publish, outbound, steady, wave>>

UpdateTableNext == \E node \in Peers : UpdateTable(node)

SpecUpdateTable == Init /\ [][UpdateTableNext]_vars

\* The last call of update_table was refused: the node was Defensive, the bucket
\* of the descriptor was full and did not hold it.
Refused ==
    /\ last.op = "update_table"
    /\ last.state = "Defensive"
    /\ Len(last.pre) = K_FACTOR
    /\ ~Contains(last.pre, last.node)

\* C39 as stated: a refused update leaves the bucket as it was before the call,
\* the same peers in the same order, least recently confirmed first.
C39_Original ==
    Refused => buckets[last.index] = last.pre

\* The part of C39 that is about the peers alone: after a refused update the
\* bucket holds the peers it held before the call, and not the refused one.
C39_SamePeers ==
    Refused =>
        /\ SeqSet(buckets[last.index]) = SeqSet(last.pre)
        /\ Len(buckets[last.index]) = Len(last.pre)

-----------------------------------------------------------------------------
(* The length of the conflicts queue.                                        *)

\* C40 as stated: under every interleaving of update_table calls with the
\* conflict-resolution loop the queue holds at most MAX_CONFLICTS conflicts, and
\* while it holds MAX_CONFLICTS conflicts the state is Defensive or ShuttingDown.
C40_Original ==
    /\ Len(conflicts) <= MAX_CONFLICTS
    /\ Len(conflicts) = MAX_CONFLICTS => state \in {"Defensive", "ShuttingDown"}

\* The first part of C40 alone: the bound of the queue.
C40_Bounded == Len(conflicts) <= MAX_CONFLICTS

\* The second part of C40 alone: the state while the queue is full.
C40_DefensiveWhileFull ==
    Len(conflicts) = MAX_CONFLICTS => state \in {"Defensive", "ShuttingDown"}

====
